---- MODULE Spec2Model ----
(***************************************************************************)
(* A model of ml-logger: the LogBook dispatcher and its backends, the      *)
(* JSON-lines wire format, the line decoders and the experiment parser,    *)
(* and the Experiment container with its on-disk form.                     *)
(*                                                                         *)
(* Python values are tagged records: the field k names the Python type and *)
(* the field v holds the payload.  A dict is an insertion-ordered sequence *)
(* of [key, val] items with pairwise different keys, as in CPython; two    *)
(* dicts are equal (PyEq) when they hold the same keys with equal values,  *)
(* whatever the order.  A line of text is a sequence of JSON tokens: the   *)
(* white space between tokens is the only thing the text loses.            *)
(***************************************************************************)
EXTENDS Integers, Sequences, FiniteSets, TLC

(***************************************************************************)
(* Python values                                                           *)
(***************************************************************************)
PyNone == [k |-> "null"]
PyInt(n) == [k |-> "int", v |-> n]
PyStr(s) == [k |-> "str", v |-> s]
PyBool(b) == [k |-> "bool", v |-> b]
PyDict(items) == [k |-> "dict", v |-> items]
PyList(elems) == [k |-> "list", v |-> elems]
\* a reference to a dict object of the heap (a nested mapping held by identity)
PyRef(a) == [k |-> "ref", v |-> a]
\* float("nan"), which json.loads makes of the literal NaN
PyNaN == [k |-> "float", v |-> "nan"]
\* a bson ObjectId: a value json.dumps cannot serialize
PyOid == [k |-> "oid"]
\* the outcome of a call that raised
PyRaise(e) == [k |-> "raise", v |-> e]

Item(key, val) == [key |-> key, val |-> val]

Raised(x) == x.k = "raise"

\* dict operations on the item sequence
Keys(d) == {d[i].key : i \in 1..Len(d)}

Has(d, key) == \E i \in 1..Len(d) : d[i].key = key

Get(d, key) == d[CHOOSE i \in 1..Len(d) : d[i].key = key].val

\* d[key] = val: an existing key keeps its position, a new key goes last
SetItem(d, key, val) ==
    IF Has(d, key)
    THEN [i \in 1..Len(d) |-> IF d[i].key = key THEN Item(key, val) ELSE d[i]]
    ELSE Append(d, Item(key, val))

\* d.pop(key) for a key that is present: the dict without it
Pop(d, key) == SelectSeq(d, LAMBDA it : it.key # key)

\* Python's == on the modelled values
RECURSIVE PyEq(_, _)
PyEq(a, b) ==
    IF a.k # b.k THEN FALSE
    ELSE IF a.k = "dict"
    THEN /\ Keys(a.v) = Keys(b.v)
         /\ \A key \in Keys(a.v) : PyEq(Get(a.v, key), Get(b.v, key))
    ELSE IF a.k = "list"
    THEN /\ Len(a.v) = Len(b.v)
         /\ \A i \in 1..Len(a.v) : PyEq(a.v[i], b.v[i])
    ELSE IF a.k = "float" THEN FALSE
    ELSE a = b

\* == on two lists of values
SeqEq(s, t) == Len(s) = Len(t) /\ \A i \in 1..Len(s) : PyEq(s[i], t[i])

\* bool(x)
Truthy(x) ==
    IF x.k = "null" THEN FALSE
    ELSE IF x.k = "bool" THEN x.v
    ELSE IF x.k = "int" THEN x.v # 0
    ELSE IF x.k = "str" THEN x.v # ""
    ELSE IF x.k \in {"dict", "list"} THEN Len(x.v) > 0
    ELSE TRUE

(***************************************************************************)
(* JSON text                                                               *)
(***************************************************************************)
Tok(t) == [t |-> t]
TokS(s) == [t |-> "string", s |-> s]
TokN(n) == [t |-> "number", n |-> n]
\* text that is no JSON token at all (a traceback, a progress bar, ...)
TokJunk == [t |-> "junk"]

\* json.dumps raises TypeError unless every value is of a JSON type
RECURSIVE Serializable(_)
Serializable(x) ==
    IF x.k \in {"null", "int", "str", "bool"} THEN TRUE
    ELSE IF x.k = "dict" THEN \A i \in 1..Len(x.v) : Serializable(x.v[i].val)
    ELSE IF x.k = "list" THEN \A i \in 1..Len(x.v) : Serializable(x.v[i])
    ELSE FALSE

RECURSIVE Encode(_)
RECURSIVE EncodeItems(_, _)
RECURSIVE EncodeElems(_, _)
\* the text of one serializable value, keys in the dict's own order
Encode(x) ==
    IF x.k = "null" THEN <<Tok("null")>>
    ELSE IF x.k = "bool" THEN <<Tok(IF x.v THEN "true" ELSE "false")>>
    ELSE IF x.k = "int" THEN <<TokN(x.v)>>
    ELSE IF x.k = "str" THEN <<TokS(x.v)>>
    ELSE IF x.k = "dict" THEN <<Tok("{")>> \o EncodeItems(x.v, 1) \o <<Tok("}")>>
    ELSE <<Tok("[")>> \o EncodeElems(x.v, 1) \o <<Tok("]")>>

EncodeItems(d, i) ==
    IF i > Len(d) THEN <<>>
    ELSE (IF i > 1 THEN <<Tok(",")>> ELSE <<>>)
         \o <<TokS(d[i].key), Tok(":")>> \o Encode(d[i].val)
         \o EncodeItems(d, i + 1)

EncodeElems(s, i) ==
    IF i > Len(s) THEN <<>>
    ELSE (IF i > 1 THEN <<Tok(",")>> ELSE <<>>)
         \o Encode(s[i]) \o EncodeElems(s, i + 1)

\* json.dumps(x): the text, or TypeError
json_dumps(x) == IF Serializable(x) THEN [ok |-> TRUE, text |-> Encode(x)]
                 ELSE [ok |-> FALSE, text |-> <<>>]

Scanned(val, next) == [ok |-> TRUE, val |-> val, next |-> next]
ScanError == [ok |-> FALSE, val |-> PyNone, next |-> 0]

RECURSIVE ScanValue(_, _)
RECURSIVE ScanItems(_, _, _)
RECURSIVE ScanElems(_, _, _)
\* the JSON value that starts at token i, and the position after it; the decoder
\* takes the literal NaN for a number, as Python's does
ScanValue(toks, i) ==
    IF i > Len(toks) THEN ScanError
    ELSE LET tk == toks[i] IN
         IF tk.t = "null" THEN Scanned(PyNone, i + 1)
         ELSE IF tk.t = "true" THEN Scanned(PyBool(TRUE), i + 1)
         ELSE IF tk.t = "false" THEN Scanned(PyBool(FALSE), i + 1)
         ELSE IF tk.t = "number" THEN Scanned(PyInt(tk.n), i + 1)
         ELSE IF tk.t = "NaN" THEN Scanned(PyNaN, i + 1)
         ELSE IF tk.t = "string" THEN Scanned(PyStr(tk.s), i + 1)
         ELSE IF tk.t = "{"
         THEN IF i + 1 <= Len(toks) /\ toks[i + 1].t = "}"
              THEN Scanned(PyDict(<<>>), i + 2)
              ELSE ScanItems(toks, i + 1, <<>>)
         ELSE IF tk.t = "["
         THEN IF i + 1 <= Len(toks) /\ toks[i + 1].t = "]"
              THEN Scanned(PyList(<<>>), i + 2)
              ELSE ScanElems(toks, i + 1, <<>>)
         ELSE ScanError

\* "key": value pairs up to the closing brace; a repeated key keeps its last value
ScanItems(toks, i, acc) ==
    IF i + 1 > Len(toks) \/ toks[i].t # "string" \/ toks[i + 1].t # ":"
    THEN ScanError
    ELSE LET r == ScanValue(toks, i + 2) IN
         IF ~r.ok \/ r.next > Len(toks) THEN ScanError
         ELSE LET d == SetItem(acc, toks[i].s, r.val) IN
              IF toks[r.next].t = "}" THEN Scanned(PyDict(d), r.next + 1)
              ELSE IF toks[r.next].t = "," THEN ScanItems(toks, r.next + 1, d)
              ELSE ScanError

ScanElems(toks, i, acc) ==
    LET r == ScanValue(toks, i) IN
    IF ~r.ok \/ r.next > Len(toks) THEN ScanError
    ELSE IF toks[r.next].t = "]" THEN Scanned(PyList(Append(acc, r.val)), r.next + 1)
    ELSE IF toks[r.next].t = "," THEN ScanElems(toks, r.next + 1, Append(acc, r.val))
    ELSE ScanError

\* json.loads(line): one value and nothing after it, or JSONDecodeError
json_loads(line) ==
    LET r == ScanValue(line, 1) IN
    IF r.ok /\ r.next = Len(line) + 1 THEN [ok |-> TRUE, val |-> r.val]
    ELSE [ok |-> FALSE, val |-> PyNone]

(***************************************************************************)
(* Line decoders (ml_logger.parser)                                        *)
(***************************************************************************)
log_key == "logbook_type"

\* parse_json: the decoded value, None for a line that is not JSON
parse_json(line) ==
    LET r == json_loads(line) IN
    IF r.ok THEN r.val ELSE PyNone

\* `key in log` for the kinds of value a line can decode to
Contains(log, key) ==
    IF log.k = "dict" THEN Has(log.v, key)
    ELSE IF log.k = "list" THEN \E i \in 1..Len(log.v) : log.v[i] = PyStr(key)
    ELSE log.v = key

\* parse_json_and_match_value: a truthy mapping is kept only if it carries the
\* wanted type; a falsy value is returned as it is; a truthy value that is no
\* container makes `key not in log` raise
parse_json_and_match_value(line, value) ==
    LET log == parse_json(line) IN
    IF ~Truthy(log) THEN log
    ELSE IF log.k \in {"int", "bool", "float"} THEN PyRaise("TypeError")
    ELSE IF ~Contains(log, log_key) THEN PyNone
    ELSE IF log.k # "dict" THEN PyRaise("TypeError")
    ELSE IF ~PyEq(Get(log.v, log_key), PyStr(value)) THEN PyNone
    ELSE log

\* the decoders a wrapped parse_line tries, in order
LogDecoders == <<"log">>

\* the default line parser for configs the experiment parser is built with: the
\* matcher above, asked for the type "config"
default_config_line_parser(line) == parse_json_and_match_value(line, "config")

\* the default line parser for metrics: the matcher asked for the type "metric"
default_metric_line_parser(line) == parse_json_and_match_value(line, "metric")

\* parser_func(line) for the decoder registered under a name
ApplyDecoder(name, line) ==
    IF name = "config" THEN default_config_line_parser(line)
    ELSE IF name = "metric" THEN default_metric_line_parser(line)
    ELSE parse_json(line)

\* a faulty variant of the wrapper that tags the record with the decoder's type whether
\* or not the record carries a type already
WrapFoundOverwrite(parser_type, log) ==
    LET d == IF log.k = "dict" THEN log.v ELSE <<Item("data", log)>> IN
    PyDict(SetItem(d, log_key, PyStr(parser_type)))

\* what the wrapper does with the first result that is not None
WrapFound(parser_type, log) ==
    LET d == IF log.k = "dict" THEN log.v ELSE <<Item("data", log)>> IN
    IF Has(d, log_key) THEN PyDict(d)
    ELSE PyDict(SetItem(d, log_key, PyStr(parser_type)))

RECURSIVE WrappedFrom(_, _, _)
WrappedFrom(decoders, i, line) ==
    IF i > Len(decoders) THEN PyNone
    ELSE LET log == ApplyDecoder(decoders[i], line) IN
         IF Raised(log) THEN log
         ELSE IF log # PyNone THEN WrapFound(decoders[i], log)
         ELSE WrappedFrom(decoders, i + 1, line)

\* Parser._wrap_parse_line(parser_functions)(line)
wrap_parse_line(decoders, line) == WrappedFrom(decoders, 1, line)

\* Parser._parse_file: one result per line of the file, in file order
parse_file(decoders, lines) ==
    [i \in 1..Len(lines) |-> wrap_parse_line(decoders, lines[i])]

\* a faulty variant of parse that stops reading at the first line that gives None
log_parse_until_none(lines) ==
    LET logs == parse_file(LogDecoders, lines)
        stops == {i \in 1..Len(logs) : logs[i] = PyNone} IN
    IF stops = {} THEN logs
    ELSE SubSeq(logs, 1, (CHOOSE i \in stops : \A j \in stops : i <= j) - 1)

\* log.Parser.parse on one file: the results that are not None
log_parse(lines) ==
    SelectSeq(parse_file(LogDecoders, lines), LAMBDA log : log # PyNone)

(***************************************************************************)
(* The heap: dict objects by address.  The caller's records live here, and *)
(* so does the copy LogBook.write hands to the backends, which all receive *)
(* the same object.                                                        *)
(***************************************************************************)
Fresh(h) ==
    IF DOMAIN h = {} THEN 1
    ELSE (CHOOSE a \in DOMAIN h : \A b \in DOMAIN h : b <= a) + 1

Alloc(h, items) == [h |-> h @@ (Fresh(h) :> items), a |-> Fresh(h)]

\* the value of the dict at address a, nested mappings included
RECURSIVE Deref(_, _)
Deref(h, a) ==
    PyDict([i \in 1..Len(h[a]) |->
              IF h[a][i].val.k = "ref"
              THEN Item(h[a][i].key, Deref(h, h[a][i].val.v))
              ELSE h[a][i]])

\* a faulty variant of deepcopy that copies the top level only (dict.copy)
deepcopy_shallow(h, a) == Alloc(h, h[a])

RECURSIVE deepcopy(_, _)
RECURSIVE CopyItems(_, _, _, _)
CopyItems(h, items, i, acc) ==
    IF i > Len(items) THEN [h |-> h, items |-> acc]
    ELSE IF items[i].val.k = "ref"
    THEN LET c == deepcopy(h, items[i].val.v) IN
         CopyItems(c.h, items, i + 1, Append(acc, Item(items[i].key, PyRef(c.a))))
    ELSE CopyItems(h, items, i + 1, Append(acc, items[i]))

\* copy.deepcopy of the dict at a: a new object for it and for every nested mapping
deepcopy(h, a) ==
    LET c == CopyItems(h, h[a], 1, <<>>) IN Alloc(c.h, c.items)

(***************************************************************************)
(* Backends (ml_logger.logger)                                             *)
(***************************************************************************)
ReservedKeys == <<"logbook_id", "logbook_type", "logbook_timestamp">>

logger_types == <<"config", "message", "metadata", "metric">>

Range(s) == {s[i] : i \in 1..Len(s)}

\* one call to the outside world made by a backend
Effect(call, target, data, extra, text) ==
    [by |-> 0, call |-> call, target |-> target, data |-> data, extra |-> extra,
     text |-> text]

\* what a backend's write leaves: the heap, the exception ("" for none), the calls made
Done(h, effects) == [h |-> h, exc |-> "", effects |-> effects]
Throw(h, exc, effects) == [h |-> h, exc |-> exc, effects |-> effects]

\* Logger._prepare_log_to_write: keys_to_retain is None in every backend, so the
\* processed log IS the log, and the keys to skip are popped from it
prepare_log_to_write(self, h, a) ==
    [h EXCEPT ![a] = SelectSeq(@, LAMBDA it : it.key \notin Range(self.keys_to_skip))]

\* a faulty variant of the renaming that copies the value and keeps the old key
RECURSIVE ApplyKeyMapKeep(_, _, _)
ApplyKeyMapKeep(items, key_map, i) ==
    IF i > Len(key_map) THEN [items |-> items, exc |-> ""]
    ELSE IF ~Has(items, key_map[i].key) THEN [items |-> items, exc |-> "KeyError"]
    ELSE ApplyKeyMapKeep(SetItem(items, key_map[i].val.v, Get(items, key_map[i].key)),
                         key_map, i + 1)

RECURSIVE ApplyKeyMap(_, _, _)
\* log[mapped_key] = log.pop(key) for each entry of the key map, in its order
ApplyKeyMap(items, key_map, i) ==
    IF i > Len(key_map) THEN [items |-> items, exc |-> ""]
    ELSE IF ~Has(items, key_map[i].key) THEN [items |-> items, exc |-> "KeyError"]
    ELSE ApplyKeyMap(SetItem(Pop(items, key_map[i].key), key_map[i].val.v,
                             Get(items, key_map[i].key)),
                     key_map, i + 1)

\* Logger._prepare_metric_log_to_write
prepare_metric_log_to_write(self, h, a) ==
    IF self.key_map = PyNone THEN Done(prepare_log_to_write(self, h, a), <<>>)
    ELSE LET m == ApplyKeyMap(h[a], self.key_map.v, 1)
             h1 == [h EXCEPT ![a] = m.items] IN
         IF m.exc # "" THEN Throw(h1, m.exc, <<>>)
         ELSE Done(prepare_log_to_write(self, h1, a), <<>>)

\* Logger._validate_metric_log
validate_metric_log(self, items) == \A key \in Range(self.keys_to_check) : Has(items, key)

\* str(x) and repr(x) of a scalar
Str(x) == IF x.k = "str" THEN x.v
          ELSE IF x.k = "int" THEN ToString(x.v)
          ELSE IF x.k = "null" THEN "None" ELSE "?"

Repr(x) == IF x.k = "str" THEN "'" \o x.v \o "'" ELSE Str(x)

\* the dict comprehension {f"{prefix}_{key}": value ...}, prefix being the one-element
\* set {metric.pop(key_prefix)}
Prefixed(items, popped) ==
    [i \in 1..Len(items) |->
        Item("{" \o Repr(popped) \o "}_" \o items[i].key, items[i].val)]

\* the values of a dict that is handed to a remote service
Payload(h, items) == Deref(h @@ (0 :> items), 0)

\* wandb.Logger.write_metric
wandb_write_metric(self, h, a, down) ==
    IF ~validate_metric_log(self, h[a]) THEN Throw(h, "KeyError", <<>>)
    ELSE LET step == Get(h[a], "step")
             h1 == [h EXCEPT ![a] = Pop(@, "step")] IN
         IF Truthy(self.key_prefix) /\ ~Has(h1[a], self.key_prefix.v)
         THEN Throw(h1, "KeyError", <<>>)
         ELSE LET h2 == IF Truthy(self.key_prefix)
                        THEN [h1 EXCEPT ![a] = Pop(@, self.key_prefix.v)]
                        ELSE h1
                  metric == IF Truthy(self.key_prefix)
                            THEN Prefixed(h2[a], Get(h1[a], self.key_prefix.v))
                            ELSE h2[a] IN
              IF down THEN Throw(h2, "ConnectionError", <<>>)
              ELSE Done(h2, <<Effect("wandb.log", "", Payload(h2, metric), step, <<>>)>>)

\* wandb.Logger.write
wandb_write(self, h, a, down) ==
    IF ~Has(h[a], "logbook_type") THEN Throw(h, "KeyError", <<>>)
    ELSE IF Get(h[a], "logbook_type") = PyStr("metric")
    THEN LET p == prepare_metric_log_to_write(self, h, a) IN
         IF p.exc # "" THEN p ELSE wandb_write_metric(self, p.h, a, down)
    ELSE LET h1 == prepare_log_to_write(self, h, a) IN
         IF Get(h[a], "logbook_type") # PyStr("config") THEN Done(h1, <<>>)
         ELSE IF down THEN Throw(h1, "ConnectionError", <<>>)
         ELSE Done(h1, <<Effect("wandb.config.update", "", Deref(h1, a), PyNone, <<>>)>>)

\* the write of the base class, which a backend inherits unless it defines its
\* own: it does nothing
base_write(self, h, a) == Done(h, <<>>)

\* mlflow.Logger.write_metric_log: the assert stops a metric that lacks a
\* required key
mlflow_write_metric_log(self, h, a, down) ==
    IF ~validate_metric_log(self, h[a])
    THEN Throw(h, "AssertionError", <<>>)
    ELSE LET step == Get(h[a], "step")
             h1 == [h EXCEPT ![a] = Pop(@, "step")] IN
         IF Truthy(self.key_prefix) /\ ~Has(h1[a], self.key_prefix.v)
         THEN Throw(h1, "KeyError", <<>>)
         ELSE LET h2 == IF Truthy(self.key_prefix)
                        THEN [h1 EXCEPT ![a] = Pop(@, self.key_prefix.v)]
                        ELSE h1
                  metric == IF Truthy(self.key_prefix)
                            THEN Prefixed(h2[a], Get(h1[a], self.key_prefix.v))
                            ELSE h2[a] IN
              IF down THEN Throw(h2, "ConnectionError", <<>>)
              ELSE Done(h2, <<Effect("mlflow.log_metrics", "", Payload(h2, metric),
                                     step, <<>>)>>)

\* mlflow.Logger.write_log: the method that holds the backend's writing; no
\* caller in the package invokes it
mlflow_write_log(self, h, a, down) ==
    IF ~Has(h[a], "logbook_type") THEN Throw(h, "KeyError", <<>>)
    ELSE IF Get(h[a], "logbook_type") = PyStr("metric")
    THEN LET p == prepare_metric_log_to_write(self, h, a) IN
         IF p.exc # "" THEN p ELSE mlflow_write_metric_log(self, p.h, a, down)
    ELSE LET h1 == prepare_log_to_write(self, h, a) IN
         IF Get(h[a], "logbook_type") # PyStr("config") THEN Done(h1, <<>>)
         ELSE IF down THEN Throw(h1, "ConnectionError", <<>>)
         ELSE Done(h1, <<Effect("mlflow.log_params", "", Deref(h1, a), PyNone, <<>>)>>)

\* mlflow.Logger.write: the class defines write_log and no write, so the write
\* LogBook calls is the one of the base class
mlflow_write(self, h, a, down) == base_write(self, h, a)

\* pop the key if it is there (tensorboard's optional keys)
PopIfPresent(items, key) == IF Has(items, key) THEN Pop(items, key) ELSE items

GetOrNone(items, key) == IF Has(items, key) THEN Get(items, key) ELSE PyNone

\* tensorboard.Logger.write_metric
tensorboard_write_metric(self, h, a, down) ==
    LET global_step == GetOrNone(h[a], "global_step")
        m1 == PopIfPresent(PopIfPresent(h[a], "global_step"), "walltime")
        main_tag == IF Has(m1, "tag") THEN Str(Get(m1, "tag")) \o "/"
                    ELSE IF Has(m1, "main_tag") THEN Str(Get(m1, "main_tag")) \o "/"
                    ELSE ""
        m2 == IF Has(m1, "tag") THEN Pop(m1, "tag") ELSE PopIfPresent(m1, "main_tag")
        h1 == [h EXCEPT ![a] = m2] IN
    IF Truthy(self.key_prefix) /\ ~Has(m2, self.key_prefix.v)
    THEN Throw(h1, "KeyError", <<>>)
    ELSE LET m3 == IF Truthy(self.key_prefix) THEN Pop(m2, self.key_prefix.v) ELSE m2
             h2 == [h EXCEPT ![a] = m3]
             metric == IF Truthy(self.key_prefix)
                       THEN Prefixed(m3, Get(m2, self.key_prefix.v))
                       ELSE m3 IN
         IF down /\ Len(metric) > 0 THEN Throw(h2, "ConnectionError", <<>>)
         ELSE Done(h2, [i \in 1..Len(metric) |->
                          Effect("add_scalar", main_tag \o metric[i].key,
                                 Payload(h2, <<metric[i]>>), global_step, <<>>)])

\* config[key] = "None" for every key whose value is None
NoneToText(items) ==
    [i \in 1..Len(items) |->
        IF items[i].val = PyNone THEN Item(items[i].key, PyStr("None")) ELSE items[i]]

\* tensorboard.Logger.write_config: the optional keys are popped from the log, the
\* nested metric_dict is prepared in place as a metric log
tensorboard_write_config(self, h, a, down) ==
    LET name == GetOrNone(h[a], "name")
        c1 == PopIfPresent(h[a], "name")
        md == GetOrNone(c1, "metric_dict")
        c2 == PopIfPresent(c1, "metric_dict")
        h1 == [h EXCEPT ![a] = c2] IN
    IF Has(c1, "metric_dict") /\ md.k # "ref" THEN Throw(h1, "TypeError", <<>>)
    ELSE LET p == IF Has(c1, "metric_dict")
                  THEN prepare_metric_log_to_write(self, h1, md.v)
                  ELSE Done(h1, <<>>) IN
         IF p.exc # "" THEN p
         ELSE LET global_step == GetOrNone(p.h[a], "global_step")
                  h2 == [p.h EXCEPT ![a] = PopIfPresent(@, "global_step")]
                  h3 == prepare_log_to_write(self, h2, a)
                  h4 == [h3 EXCEPT ![a] = NoneToText(@)]
                  metric_dict == IF md.k = "ref" THEN Deref(h4, md.v) ELSE PyDict(<<>>) IN
              IF down THEN Throw(h4, "ConnectionError", <<>>)
              ELSE Done(h4, <<Effect("add_hparams", Str(name), Deref(h4, a),
                                     metric_dict, <<>>)>>)

\* tensorboard.Logger.write
tensorboard_write(self, h, a, down) ==
    IF ~Has(h[a], "logbook_type") THEN Throw(h, "KeyError", <<>>)
    ELSE IF Get(h[a], "logbook_type") = PyStr("metric")
    THEN LET p == prepare_metric_log_to_write(self, h, a) IN
         IF p.exc # "" THEN p ELSE tensorboard_write_metric(self, p.h, a, down)
    ELSE IF Get(h[a], "logbook_type") = PyStr("config")
    THEN tensorboard_write_config(self, h, a, down)
    ELSE Done(h, <<>>)

mongo_logger_types == {"config", "message", "metadata"}

\* mongo.Logger.write: insert_one gives the document an _id when it has none
mongo_write(self, h, a, down) ==
    IF ~Has(h[a], "logbook_type") THEN Throw(h, "KeyError", <<>>)
    ELSE IF Get(h[a], "logbook_type") \notin {PyStr(t) : t \in mongo_logger_types}
    THEN Done(h, <<>>)
    ELSE LET h1 == IF Has(h[a], "_id") THEN h
                   ELSE [h EXCEPT ![a] = Append(@, Item("_id", PyOid))] IN
         IF down THEN Throw(h1, "ConnectionError", <<>>)
         ELSE Done(h1, <<Effect("insert_one", "", Deref(h, a), PyNone, <<>>)>>)

\* a faulty variant of the routing that has no fallback: a type without a logger
\* of its own goes to the first logger
fs_route_first(self, log_type) ==
    IF log_type \in DOMAIN self.loggers THEN self.loggers[log_type]
    ELSE self.loggers[logger_types[1]]

\* filesystem.Logger._write_log_to_fs: the logging.Logger the line is given to
fs_route(self, log_type) ==
    IF log_type \in DOMAIN self.loggers THEN self.loggers[log_type]
    ELSE self.loggers["message"]

\* filesystem.Logger.write
filesystem_write(self, h, a) ==
    LET h1 == prepare_log_to_write(self, h, a)
        s == json_dumps(Deref(h1, a)) IN
    IF ~s.ok THEN Throw(h1, "TypeError", <<>>)
    ELSE IF ~Has(h1[a], "logbook_type") THEN Throw(h1, "KeyError", <<>>)
    ELSE Done(h1, <<Effect("info", fs_route(self, Get(h1[a], "logbook_type").v),
                           PyNone, PyNone, s.text)>>)

\* logger.write(log=log) for a backend of any kind; `down` says that the remote
\* services are unreachable during this call
backend_write(self, h, a, down) ==
    IF self.kind = "filesystem" THEN filesystem_write(self, h, a)
    ELSE IF self.kind = "wandb" THEN wandb_write(self, h, a, down)
    ELSE IF self.kind = "tensorboard" THEN tensorboard_write(self, h, a, down)
    ELSE IF self.kind = "mlflow" THEN mlflow_write(self, h, a, down)
    ELSE mongo_write(self, h, a, down)

(***************************************************************************)
(* The file system and the process-wide logging registry                   *)
(***************************************************************************)
\* os.path.join(logger_dir, filename)
Path(dir, name) == [dir |-> dir, name |-> name]

\* filesystem.get_logger_file_path
get_logger_file_path(logger_dir, filename, filename_prefix, filename_suffix) ==
    Path(logger_dir,
         IF filename = PyNone THEN filename_prefix \o filename_suffix \o ".jsonl"
         ELSE filename.v)

\* the world a backend is constructed in: logging's loggers by name, each with the
\* files its handlers append to, and the files by path
World(reg, fs) == [registry |-> reg, files |-> fs]

\* filesystem._set_logger: logging.getLogger(name) gets one more FileHandler, which
\* opens (and so creates) its file for appending
set_logger(w, path, name) ==
    World(IF name \in DOMAIN w.registry
          THEN [w.registry EXCEPT ![name] = Append(@, path)]
          ELSE w.registry @@ (name :> <<path>>),
          IF path \in DOMAIN w.files THEN w.files ELSE w.files @@ (path :> <<>>))

RECURSIVE SetLoggers(_, _, _)
\* the per-type loggers of create_multiple_log_files, in the order of logger_types
SetLoggers(w, config, i) ==
    IF i > Len(logger_types) THEN w
    ELSE SetLoggers(
           set_logger(w,
                      get_logger_file_path(config.logger_dir, config.filename,
                                           config.filename_prefix,
                                           logger_types[i] \o "_log"),
                      config.logger_name \o "_" \o logger_types[i]),
           config, i + 1)

\* Logger.__init__ of the base class: the fields every backend has
BaseLogger(kind, config) ==
    [kind |-> kind, keys_to_skip |-> <<>>, keys_to_check |-> <<>>,
     key_map |-> config.logbook_key_map, key_prefix |-> config.logbook_key_prefix,
     loggers |-> <<>>]

\* filesystem.Logger.__init__
filesystem_init(config, w) ==
    IF config.create_multiple_log_files
    THEN [self |-> [BaseLogger("filesystem", config) EXCEPT
                      !.loggers = [t \in Range(logger_types) |->
                                     config.logger_name \o "_" \o t]],
          world |-> SetLoggers(w, config, 1)]
    ELSE [self |-> [BaseLogger("filesystem", config) EXCEPT
                      !.loggers = [t \in Range(logger_types) |-> config.logger_name]],
          world |-> set_logger(w,
                               get_logger_file_path(config.logger_dir, config.filename,
                                                    config.filename_prefix, "log"),
                               config.logger_name)]

\* wandb.Logger.__init__, tensorboard.Logger.__init__, mlflow.Logger.__init__,
\* mongo.Logger.__init__
remote_init(kind, config, w) ==
    [self |-> [BaseLogger(kind, config) EXCEPT
                 !.keys_to_skip = IF kind = "mongo" THEN <<>> ELSE ReservedKeys,
                 !.keys_to_check = IF kind \in {"wandb", "mlflow"} THEN <<"step">>
                                   ELSE <<>>],
     world |-> w]

logger_init(config, w) ==
    IF config.kind = "filesystem" THEN filesystem_init(config, w)
    ELSE remote_init(config.kind, config, w)

RECURSIVE InitLoggers(_, _, _, _)
InitLoggers(configs, i, acc, w) ==
    IF i > Len(configs) THEN [loggers |-> acc, world |-> w]
    ELSE LET r == logger_init(configs[i], w) IN
         InitLoggers(configs, i + 1, Append(acc, r.self), r.world)

\* LogBook.__init__: one backend per entry of config["loggers"], in the entries' order
logbook_init(config, w) ==
    LET r == InitLoggers(config.loggers, 1, <<>>, w) IN
    [self |-> [id |-> config.id, logger_name |-> config.name, loggers |-> r.loggers],
     world |-> r.world]

(***************************************************************************)
(* A backend constructed from the caller's options mapping                 *)
(***************************************************************************)
\* the outcome of a constructor: the exception raised ("" for none), the caller's
\* mapping as the constructor leaves it, the two fields the base class sets, the
\* keyword arguments handed to the remote library, and the world
Constructed(exc, config, key_map, key_prefix, kwargs, w) ==
    [exc |-> exc, config |-> config, key_map |-> key_map, key_prefix |-> key_prefix,
     kwargs |-> kwargs, world |-> w]

\* a faulty variant of the base constructor that reads the two options and leaves
\* them in the mapping
base_init_get(config, w) ==
    IF ~Has(config, "logbook_key_map")
    THEN Constructed("KeyError: 'logbook_key_map'", config, PyNone, PyNone, <<>>, w)
    ELSE IF ~Has(config, "logbook_key_prefix")
    THEN Constructed("KeyError: 'logbook_key_prefix'", config,
                     Get(config, "logbook_key_map"), PyNone, <<>>, w)
    ELSE Constructed("", config, Get(config, "logbook_key_map"),
                     Get(config, "logbook_key_prefix"), <<>>, w)

\* Logger.__init__ of the base class on a mapping: config.pop("logbook_key_map"),
\* then config.pop("logbook_key_prefix"); pop without a default raises KeyError
\* for a key that is absent
base_init(config, w) ==
    IF ~Has(config, "logbook_key_map")
    THEN Constructed("KeyError: 'logbook_key_map'", config, PyNone, PyNone, <<>>, w)
    ELSE IF ~Has(Pop(config, "logbook_key_map"), "logbook_key_prefix")
    THEN Constructed("KeyError: 'logbook_key_prefix'", Pop(config, "logbook_key_map"),
                     Get(config, "logbook_key_map"), PyNone, <<>>, w)
    ELSE Constructed("", Pop(Pop(config, "logbook_key_map"), "logbook_key_prefix"),
                     Get(config, "logbook_key_map"), Get(config, "logbook_key_prefix"),
                     <<>>, w)

\* the keys each constructor asks the mapping for after the base class has run
FilesystemKeys ==
    <<"logger_dir", "logger_name", "write_to_console", "create_multiple_log_files",
      "filename_prefix", "filename">>

MongoKeys == <<"host", "port", "db", "collection">>

KeysMissing == "KeyError: One or more of the following keys missing in the config"

\* the options of the filesystem backend as the fields filesystem_init reads
FilesystemOptions(config, b) ==
    [kind |-> "filesystem", logger_dir |-> Get(config, "logger_dir").v,
     logger_name |-> Get(config, "logger_name").v,
     filename |-> Get(config, "filename"),
     create_multiple_log_files |-> Get(config, "create_multiple_log_files").v,
     filename_prefix |-> Get(config, "filename_prefix").v,
     logbook_key_map |-> b.key_map, logbook_key_prefix |-> b.key_prefix]

\* Logger(config) of the backend `kind` for a mapping the caller holds
Logger_init(kind, config, w) ==
    LET b == base_init(config, w) IN
    IF b.exc # "" THEN b
    ELSE IF kind = "filesystem"
    THEN IF \E i \in 1..Len(FilesystemKeys) : ~Has(b.config, FilesystemKeys[i])
         THEN [b EXCEPT !.exc = KeysMissing]
         ELSE [b EXCEPT !.world = filesystem_init(FilesystemOptions(b.config, b), w).world]
    ELSE IF kind = "mongo"
    THEN IF \E i \in 1..Len(MongoKeys) : ~Has(b.config, MongoKeys[i])
         THEN [b EXCEPT !.exc = KeysMissing]
         ELSE b
    ELSE IF kind = "tensorboard"
    THEN IF ~Has(b.config, "logdir") THEN [b EXCEPT !.exc = "KeyError: 'logdir'"]
         ELSE [b EXCEPT !.kwargs = b.config]
    ELSE [b EXCEPT !.kwargs = b.config]

(***************************************************************************)
(* LogBook (ml_logger.logbook)                                             *)
(***************************************************************************)
\* time.strftime(self.time_format) when the clock reads `now`
strftime(now) == PyStr(ToString(now))

\* LogBook._process_log: the three stamps, set on the object it is given
process_log(self, h, a, log_type, now) ==
    [h EXCEPT ![a] = SetItem(SetItem(SetItem(@, "logbook_id", PyStr(self.id)),
                                     "logbook_timestamp", strftime(now)),
                             "logbook_type", PyStr(log_type))]

RECURSIVE FanOut(_, _, _, _, _, _, _)
\* for logger in self.loggers: logger.write(log=log).  `calls` records, for every
\* backend invoked, the log as it was on entry; an exception ends the loop
FanOut(loggers, i, h, a, down, calls, effects) ==
    IF i > Len(loggers)
    THEN [h |-> h, calls |-> calls, effects |-> effects, exc |-> "", at |-> 0]
    ELSE LET r == backend_write(loggers[i], h, a, loggers[i].kind \in down)
             c == Append(calls, [idx |-> i, kind |-> loggers[i].kind,
                                 seen |-> Deref(h, a), returned |-> r.exc = ""])
             e == effects \o [j \in 1..Len(r.effects) |-> [r.effects[j] EXCEPT !.by = i]] IN
         IF r.exc # ""
         THEN [h |-> r.h, calls |-> c, effects |-> e, exc |-> r.exc, at |-> i]
         ELSE FanOut(loggers, i + 1, r.h, a, down, c, e)

\* a faulty variant of the fan-out that skips the first backend
FanOutSkipFirst(loggers, h, a, down) == FanOut(loggers, 2, h, a, down, <<>>, <<>>)

\* a faulty variant of the fan-out that swallows a backend's exception and goes on
RECURSIVE FanOutSwallow(_, _, _, _, _, _, _)
FanOutSwallow(loggers, i, h, a, down, calls, effects) ==
    IF i > Len(loggers)
    THEN [h |-> h, calls |-> calls, effects |-> effects, exc |-> "", at |-> 0]
    ELSE LET r == backend_write(loggers[i], h, a, loggers[i].kind \in down)
             c == Append(calls, [idx |-> i, kind |-> loggers[i].kind,
                                 seen |-> Deref(h, a), returned |-> r.exc = ""])
             e == effects \o [j \in 1..Len(r.effects) |-> [r.effects[j] EXCEPT !.by = i]] IN
         FanOutSwallow(loggers, i + 1, r.h, a, down, c, e)

FanOutSwallowAll(loggers, h, a, down) == FanOutSwallow(loggers, 1, h, a, down, <<>>, <<>>)

\* the loop of LogBook.write over the backends
fan_out(loggers, h, a, down) == FanOut(loggers, 1, h, a, down, <<>>, <<>>)

\* LogBook.write(log, log_type) for the caller's dict at address a
logbook_write(self, h, a, log_type, now, down) ==
    LET c == deepcopy(h, a)
        h1 == process_log(self, c.h, c.a, log_type, now) IN
    fan_out(self.loggers, h1, c.a, down)

\* the outcome of a LogBook.write that raised before the loop over the backends
NotDispatched(h, exc) ==
    [h |-> h, calls |-> <<>>, effects |-> <<>>, exc |-> exc, at |-> 0]

\* a faulty variant of write that hands a value that is no mapping to the
\* backends, wrapped in a dict
LogBook_write_wrapping(self, h, log, log_type, now, down) ==
    IF log.k = "ref" THEN logbook_write(self, h, log.v, log_type, now, down)
    ELSE LET c == Alloc(h, <<Item("data", log)>>) IN
         logbook_write(self, c.h, c.a, log_type, now, down)

\* LogBook.write(log, log_type) for any argument: a dict the caller holds (a
\* reference), or a value that is no mapping, which deepcopy copies and on which
\* the first assignment of _process_log raises TypeError
LogBook_write(self, h, log, log_type, now, down) ==
    IF log.k = "ref" THEN logbook_write(self, h, log.v, log_type, now, down)
    ELSE NotDispatched(h, "TypeError")

\* LogBook.write_config
LogBook_write_config(self, h, config, now, down) ==
    LogBook_write(self, h, config, "config", now, down)

\* LogBook.write_metric
LogBook_write_metric(self, h, metric, now, down) ==
    LogBook_write(self, h, metric, "metric", now, down)

\* a faulty variant of write_metadata that writes under the type "metric"
LogBook_write_metadata_as_metric(self, h, metadata, now, down) ==
    LogBook_write(self, h, metadata, "metric", now, down)

\* LogBook.write_metadata
LogBook_write_metadata(self, h, metadata, now, down) ==
    LogBook_write(self, h, metadata, "metadata", now, down)

\* the type write_message writes under when the caller names none
write_message_default_type == "info"

\* LogBook.write_message(message, log_type): a new dict {"message": message} is
\* written under log_type
LogBook_write_message(self, h, message, log_type, now, down) ==
    LET c == Alloc(h, <<Item("message", message)>>) IN
    LogBook_write(self, c.h, PyRef(c.a), log_type, now, down)

RECURSIVE Emit(_, _, _, _)
\* logging.Logger.info: the line goes to every handler of the named logger
Emit(fs, handlers, i, text) ==
    IF i > Len(handlers) THEN fs
    ELSE Emit([fs EXCEPT ![handlers[i]] = Append(@, text)], handlers, i + 1, text)

RECURSIVE ApplyEffects(_, _, _, _)
\* what the calls of one write leave on the file system
ApplyEffects(fs, reg, effects, i) ==
    IF i > Len(effects) THEN fs
    ELSE IF effects[i].call = "info"
    THEN ApplyEffects(Emit(fs, reg[effects[i].target], 1, effects[i].text),
                      reg, effects, i + 1)
    ELSE ApplyEffects(fs, reg, effects, i + 1)

(***************************************************************************)
(* Metric tables and the Experiment (ml_logger.parser)                     *)
(***************************************************************************)
\* a pandas DataFrame: the column names and the rows, each row one cell per column
DataFrame(columns, rows) == [columns |-> columns, rows |-> rows]

EmptyFrame == DataFrame(<<>>, <<>>)

\* DataFrame.empty
FrameEmpty(df) == Len(df.columns) = 0 \/ Len(df.rows) = 0

\* _dict.get(key, None)
GetOrDefault(d, key) == IF Has(d, key) THEN Get(d, key) ELSE PyNone

\* utils.map_list_of_dicts_to_dict_of_lists: one list per key OF THE FIRST DICT
map_list_of_dicts_to_dict_of_lists(list_of_dicts) ==
    IF Len(list_of_dicts) = 0 THEN <<>>
    ELSE LET keys == list_of_dicts[1].v IN
         [j \in 1..Len(keys) |->
            Item(keys[j].key,
                 PyList([i \in 1..Len(list_of_dicts) |->
                           GetOrDefault(list_of_dicts[i].v, keys[j].key)]))]

\* pd.DataFrame.from_dict(data) for a dict of equally long lists
DataFrame_from_dict(data) ==
    DataFrame([j \in 1..Len(data) |-> data[j].key],
              IF Len(data) = 0 THEN <<>>
              ELSE [i \in 1..Len(data[1].val.v) |->
                      [j \in 1..Len(data) |-> data[j].val.v[i]]])

\* metric.fn_to_group_metrics: the one group "all"
fn_to_group_metrics(metrics) == <<Item("all", metrics)>>

\* metric.fn_to_aggregate_metrics
fn_to_aggregate_metrics(metrics) == metrics

\* dict(items): a key that comes again keeps its place and takes the later value
RECURSIVE DictFromItems(_, _, _)
DictFromItems(items, i, d) ==
    IF i > Len(items) THEN d
    ELSE DictFromItems(items, i + 1, SetItem(d, items[i].key, items[i].val))

RECURSIVE flatten_log(_, _, _)
RECURSIVE FlattenItems(_, _, _, _)
\* the loop of flatten_log over d.items() from the i-th item on: the list `items`
FlattenItems(d, i, parent_key, sep) ==
    IF i > Len(d) THEN <<>>
    ELSE LET new_key == IF parent_key # "" THEN parent_key \o sep \o d[i].key
                        ELSE d[i].key IN
         (IF d[i].val.k = "dict" THEN flatten_log(d[i].val.v, new_key, sep)
          ELSE <<Item(new_key, d[i].val)>>)
         \o FlattenItems(d, i + 1, parent_key, sep)

\* utils.flatten_log(d, parent_key, sep): the leaves of a nested mapping under
\* their separator-joined key paths
flatten_log(d, parent_key, sep) ==
    DictFromItems(FlattenItems(d, 1, parent_key, sep), 1, <<>>)

\* a faulty variant of metrics_to_df that flattens every record first
metrics_to_df_flattened(metric_logs) ==
    LET grouped == fn_to_group_metrics(
                       [i \in 1..Len(metric_logs) |->
                           PyDict(flatten_log(metric_logs[i].v, "", "#"))]) IN
    [g \in 1..Len(grouped) |->
        Item(grouped[g].key,
             DataFrame_from_dict(
                 map_list_of_dicts_to_dict_of_lists(
                     fn_to_aggregate_metrics(grouped[g].val))))]

\* metrics_to_df: group name -> DataFrame, as a dict
metrics_to_df(metric_logs) ==
    LET grouped == fn_to_group_metrics(metric_logs) IN
    [g \in 1..Len(grouped) |->
        Item(grouped[g].key,
             DataFrame_from_dict(
                 map_list_of_dicts_to_dict_of_lists(
                     fn_to_aggregate_metrics(grouped[g].val))))]

\* Experiment.__init__
Experiment(configs, metrics, info) ==
    [configs |-> configs, metrics |-> metrics, info |-> info]

\* a faulty variant of the config property that returns the first config
Experiment_config_first(e) ==
    IF Len(e.configs) > 0 THEN e.configs[1] ELSE PyNone

\* Experiment.config
Experiment_config(e) ==
    IF Len(e.configs) > 0 THEN e.configs[Len(e.configs)] ELSE PyNone

\* the decoders of the experiment parser, in the order they are tried
ExperimentDecoders == <<"config", "metric", "info">>

RECURSIVE ReadFiles(_, _, _)
\* the results of _parse_file for the files in the given order, one after another;
\* `decoded` holds, for every file, the results for its lines
ReadFiles(decoded, paths, i) ==
    IF i > Len(paths) THEN <<>>
    ELSE decoded[paths[i]] \o ReadFiles(decoded, paths, i + 1)

\* _parse_file on every file of a set
DecodeFiles(fs, S) == [p \in S |-> parse_file(ExperimentDecoders, fs[p])]

\* a faulty variant of the append that puts the new record first in its list
InfoPrepend(info, info_key, log) ==
    IF Has(info, info_key)
    THEN SetItem(info, info_key, PyList(<<log>> \o Get(info, info_key).v))
    ELSE Append(info, Item(info_key, PyList(<<log>>)))

\* info[info_key].append(log), the list created on first use
InfoAppend(info, info_key, log) ==
    IF Has(info, info_key)
    THEN SetItem(info, info_key, PyList(Append(Get(info, info_key).v, log)))
    ELSE Append(info, Item(info_key, PyList(<<log>>)))

\* the loop of Parser.parse over the decoded lines: a config goes to configs, a
\* metric to metric_logs, anything else to info under its own type; a decoder
\* that raised ends the parse
RECURSIVE RouteLogs(_, _, _, _, _)
RouteLogs(logs, i, configs, metric_logs, info) ==
    IF i > Len(logs)
    THEN [exc |-> "", configs |-> configs, metric_logs |-> metric_logs, info |-> info]
    ELSE IF Raised(logs[i])
    THEN [exc |-> logs[i].v, configs |-> configs, metric_logs |-> metric_logs,
          info |-> info]
    ELSE IF logs[i] = PyNone
    THEN RouteLogs(logs, i + 1, configs, metric_logs, info)
    ELSE LET t == Get(logs[i].v, log_key) IN
         IF t = PyStr("config")
         THEN RouteLogs(logs, i + 1, Append(configs, logs[i]), metric_logs, info)
         ELSE IF t = PyStr("metric")
         THEN RouteLogs(logs, i + 1, configs, Append(metric_logs, logs[i]), info)
         ELSE IF t.k \in {"dict", "list"}
         THEN [exc |-> "TypeError", configs |-> configs, metric_logs |-> metric_logs,
               info |-> info]
         ELSE RouteLogs(logs, i + 1, configs, metric_logs,
                        InfoAppend(info, Str(t), logs[i]))

\* the three lists Parser.parse collects from the files it reads, in their order
experiment_collect(decoded, paths) ==
    RouteLogs(ReadFiles(decoded, paths, 1), 1, <<>>, <<>>, <<>>)

\* a faulty variant of the parse that makes an Experiment of no file at all
experiment_parse_unchecked(decoded, paths) ==
    LET r == experiment_collect(decoded, paths) IN
    [exc |-> r.exc,
     experiment |-> Experiment(r.configs, metrics_to_df(r.metric_logs), r.info),
     metric_logs |-> r.metric_logs]

\* experiment.Parser.parse for a directory whose regular files are `paths`, in the
\* order iterdir gives them: the Experiment, the exception raised ("" for none),
\* and the metric records it made the tables from
experiment_parse(decoded, paths) ==
    IF Len(paths) = 0
    THEN [exc |-> "AssertionError", experiment |-> Experiment(<<>>, <<>>, <<>>),
          metric_logs |-> <<>>]
    ELSE LET r == experiment_collect(decoded, paths) IN
         [exc |-> r.exc,
          experiment |-> Experiment(r.configs, metrics_to_df(r.metric_logs), r.info),
          metric_logs |-> r.metric_logs]

(***************************************************************************)
(* ExperimentSequence.aggregate and its default strategies                 *)
(***************************************************************************)
\* the outcome of a call: the value returned, or the exception raised
Return(val) == [exc |-> "", val |-> val]
Raise(exc) == [exc |-> exc, val |-> PyNone]

\* iter(x): the elements of a list, the keys of a dict
Iterable(x) == x.k \in {"list", "dict"}
Elements(x) ==
    IF x.k = "list" THEN x.v ELSE [i \in 1..Len(x.v) |-> PyStr(x.v[i].key)]

\* len(x) > 0 for a value that has a length
Sized(x) == x.k \in {"list", "dict", "str"}
NonEmpty(x) == IF x.k = "str" THEN x.v # "" ELSE Len(x.v) > 0

RECURSIVE FirstConfig(_, _)
FirstConfig(elems, i) ==
    IF i > Len(elems) THEN Return(PyList(<<>>))
    ELSE IF ~Sized(elems[i]) THEN Raise("TypeError")
    ELSE IF NonEmpty(elems[i]) THEN Return(elems[i])
    ELSE FirstConfig(elems, i + 1)

\* return_first_config(config_lists): the first element of its argument that has
\* a length above zero
return_first_config(config_lists) ==
    IF ~Iterable(config_lists) THEN Raise("TypeError")
    ELSE FirstConfig(Elements(config_lists), 1)

\* the columns of some frames, in the order of their first appearance
RECURSIVE ConcatColumns(_, _, _)
ConcatColumns(frames, i, acc) ==
    IF i > Len(frames) THEN acc
    ELSE ConcatColumns(frames, i + 1,
                       acc \o SelectSeq(frames[i].columns, LAMBDA c : c \notin Range(acc)))

\* pd.concat(frames): the rows of the frames one after another, under the union
\* of their columns, NaN where a frame has no such column
RECURSIVE ConcatRows(_, _, _)
ConcatRows(frames, i, columns) ==
    IF i > Len(frames) THEN <<>>
    ELSE [r \in 1..Len(frames[i].rows) |->
            [j \in 1..Len(columns) |->
                IF columns[j] \in Range(frames[i].columns)
                THEN frames[i].rows[r][CHOOSE c \in 1..Len(frames[i].columns) :
                                          frames[i].columns[c] = columns[j]]
                ELSE PyNaN]]
         \o ConcatRows(frames, i + 1, columns)

pd_concat(frames) ==
    LET columns == ConcatColumns(frames, 1, <<>>) IN
    DataFrame(columns, ConcatRows(frames, 1, columns))

RECURSIVE ConcatKeys(_, _, _, _)
ConcatKeys(metrics, keys, i, acc) ==
    IF i > Len(keys) THEN Return(PyDict(acc))
    ELSE IF \E j \in 1..Len(metrics) : ~Has(metrics[j].v, keys[i]) THEN Raise("KeyError")
    ELSE ConcatKeys(metrics, keys, i + 1,
                    Append(acc, Item(keys[i],
                                     pd_concat([j \in 1..Len(metrics) |->
                                                   Get(metrics[j].v, keys[i])]))))

\* concat_metrics(metric_list): metric_list[0] is the first element of a list,
\* and the value under the key 0 of a dict, whose keys are the names of groups
concat_metrics(metric_list) ==
    IF metric_list.k = "dict" THEN Raise("KeyError")
    ELSE IF metric_list.k # "list" THEN Raise("TypeError")
    ELSE IF Len(metric_list.v) = 0 THEN Raise("IndexError")
    ELSE ConcatKeys(metric_list.v,
                    [i \in 1..Len(metric_list.v[1].v) |-> metric_list.v[1].v[i].key], 1, <<>>)

\* return_first_infos(info_list): the first element that is not None
return_first_infos(info_list) ==
    IF ~Iterable(info_list) THEN Raise("TypeError")
    ELSE LET elems == Elements(info_list)
             found == {i \in 1..Len(elems) : elems[i] # PyNone} IN
         IF found = {} THEN Return(PyDict(<<>>))
         ELSE Return(elems[CHOOSE i \in found : \A j \in found : i <= j])

\* f(*args) for a function of one parameter: any other number of positional
\* arguments raises before the function runs
CallStarred(name, args) ==
    IF Len(args) # 1 THEN Raise("TypeError")
    ELSE IF name = "return_first_config" THEN return_first_config(args[1])
    ELSE IF name = "concat_metrics" THEN concat_metrics(args[1])
    ELSE return_first_infos(args[1])

\* ExperimentSequence.aggregate with the default strategies: the three arguments
\* of Experiment(...) are evaluated in their order, and the first exception ends
\* the call
ExperimentSequence_aggregate(data) ==
    LET configs == CallStarred("return_first_config",
                               [i \in 1..Len(data) |-> Experiment_config(data[i])])
        metrics == CallStarred("concat_metrics",
                               [i \in 1..Len(data) |-> PyDict(data[i].metrics)])
        info == CallStarred("return_first_infos",
                            [i \in 1..Len(data) |-> PyDict(data[i].info)]) IN
    IF configs.exc # "" THEN Raise(configs.exc)
    ELSE IF metrics.exc # "" THEN Raise(metrics.exc)
    ELSE IF info.exc # "" THEN Raise(info.exc)
    ELSE Return(Experiment(configs.val, metrics.val, info.val))

RECURSIVE GroupLoop(_, _, _, _)
\* the loop of groupby: each Experiment is appended to the list under its key, the
\* list made on the key's first appearance; keys holds group_fn's value for
\* every Experiment
GroupLoop(data, keys, i, grouped_experiments) ==
    IF i > Len(data) THEN grouped_experiments
    ELSE GroupLoop(data, keys, i + 1,
                   IF Has(grouped_experiments, keys[i])
                   THEN SetItem(grouped_experiments, keys[i],
                                Append(Get(grouped_experiments, keys[i]), data[i]))
                   ELSE Append(grouped_experiments, Item(keys[i], <<data[i]>>)))

\* ExperimentSequence.groupby(group_fn): the sequence after the call and the dict
\* of new sequences it returns
ExperimentSequence_groupby(data, keys) ==
    [self |-> data, val |-> GroupLoop(data, keys, 1, <<>>)]

\* a faulty variant of filter that removes the other Experiments from the sequence
\* it is called on
ExperimentSequence_filter_in_place(data, keeps) ==
    LET kept == {i \in 1..Len(data) : keeps[i]}
        Pick(S) == CHOOSE i \in S : \A j \in S : i <= j
        RECURSIVE Listed(_)
        Listed(S) == IF S = {} THEN <<>> ELSE <<data[Pick(S)]>> \o Listed(S \ {Pick(S)}) IN
    [self |-> Listed(kept), val |-> Listed(kept)]

RECURSIVE FilterLoop(_, _, _)
\* the comprehension of filter; keeps holds filter_fn's value for every Experiment
FilterLoop(data, keeps, i) ==
    IF i > Len(data) THEN <<>>
    ELSE (IF keeps[i] THEN <<data[i]>> ELSE <<>>) \o FilterLoop(data, keeps, i + 1)

\* ExperimentSequence.filter(filter_fn): the sequence after the call and the new
\* sequence it returns
ExperimentSequence_filter(data, keeps) ==
    [self |-> data, val |-> FilterLoop(data, keeps, 1)]

(***************************************************************************)
(* Directories and file patterns (os.path, pathlib, glob)                  *)
(***************************************************************************)
\* a file name: its stem and its extension ("" for none); in a pattern either
\* may be the wildcard
Name(stem, ext) == [stem |-> stem, ext |-> ext]

Star == "*"

\* an entry of the directory tree: a directory, or a regular file with its lines
Dir == [dir |-> TRUE, lines |-> <<>>]
File(lines) == [dir |-> FALSE, lines |-> lines]

\* the argument of parse: the components of the path or pattern, and whether it
\* is a pathlib.Path or a str
Pattern(path, parts) == [path |-> path, parts |-> parts]

\* fnmatch.fnmatch(name, pat) for the patterns name, *.ext and *
fnmatch(name, pat) ==
    /\ pat.stem = Star \/ pat.stem = name.stem
    /\ pat.ext = Star \/ pat.ext = name.ext

\* os.path.isdir(p), Path.is_dir()
is_dir(tree, p) == p \in DOMAIN tree /\ tree[p].dir

\* Path.is_file()
is_file(tree, p) == p \in DOMAIN tree /\ ~tree[p].dir

\* glob.glob(pattern), glob.iglob(pattern): the existing paths, files and
\* directories alike, whose components match the pattern's one by one
glob(tree, parts) ==
    {p \in DOMAIN tree : /\ Len(p) = Len(parts)
                         /\ \A i \in 1..Len(p) : fnmatch(p[i], parts[i])}

\* Path.iterdir(): the entries of a directory, not those below them
iterdir(tree, d) ==
    {p \in DOMAIN tree : Len(p) = Len(d) + 1 /\ SubSeq(p, 1, Len(d)) = d}

\* the first lines of experiment.Parser.parse: the regular files it will read
experiment_paths(tree, pattern) ==
    LET isdir == is_dir(tree, pattern.parts)
        paths == IF pattern.path \/ isdir
                 THEN IF isdir THEN iterdir(tree, pattern.parts) ELSE {pattern.parts}
                 ELSE glob(tree, pattern.parts) IN
    {q \in paths : is_file(tree, q)}

\* the lines of the files of a set
LinesOf(tree, S) == [p \in S |-> tree[p].lines]

RECURSIVE ReadPaths(_, _, _, _)
\* the loop of log.Parser.parse over the paths iglob gives, in their order: open
\* raises on a directory, and the records yielded before it stay yielded
ReadPaths(tree, paths, i, records) ==
    IF i > Len(paths) THEN [exc |-> "", records |-> records]
    ELSE IF tree[paths[i]].dir THEN [exc |-> "IsADirectoryError", records |-> records]
    ELSE ReadPaths(tree, paths, i + 1, records \o log_parse(tree[paths[i]].lines))

\* log.Parser.parse(filepath_pattern), its generator run to the end
log_parse_pattern(tree, paths) == ReadPaths(tree, paths, 1, <<>>)

(***************************************************************************)
(* The Experiment on disk (Experiment.serialize, deserialize)              *)
(***************************************************************************)
\* DataFrame.to_feather: a columnar file, the values of each column together
to_feather(df) ==
    [columns |-> df.columns,
     data |-> [j \in 1..Len(df.columns) |-> [i \in 1..Len(df.rows) |-> df.rows[i][j]]]]

\* pd.read_feather
read_feather(f) ==
    DataFrame(f.columns,
              IF Len(f.columns) = 0 THEN <<>>
              ELSE [i \in 1..Len(f.data[1]) |->
                      [j \in 1..Len(f.columns) |-> f.data[j][i]]])

\* gzip.open(path, "wb").write(text.encode("utf-8")) and its reading back
gzip_write(text) == [gzip |-> text]
gzip_read(blob) == blob.gzip

RECURSIVE WriteMetrics(_, _, _)
\* the loop of serialize over self.metrics: a table that is not empty is written
\* to metric/<key>, replacing a file of that name; an empty table writes nothing
WriteMetrics(metric_dir, metrics, i) ==
    IF i > Len(metrics) THEN metric_dir
    ELSE IF FrameEmpty(metrics[i].val) THEN WriteMetrics(metric_dir, metrics, i + 1)
    ELSE WriteMetrics((metrics[i].key :> to_feather(metrics[i].val))
                         @@ [k \in DOMAIN metric_dir \ {metrics[i].key} |-> metric_dir[k]],
                      metrics, i + 1)

\* Experiment.serialize(dir_path): config.jsonl and info.gzip are written anew, the
\* metric directory is made if it is missing and keeps the files it has
Experiment_serialize(self, dir) ==
    [exists |-> TRUE,
     config |-> [i \in 1..Len(self.configs) |-> json_dumps(self.configs[i]).text],
     metric |-> WriteMetrics(dir.metric, self.metrics, 1),
     info |-> gzip_write(json_dumps(PyDict(self.info)).text)]

\* a faulty variant of deserialize that returns an empty metrics mapping when the
\* metric directory holds no file
deserialize_without_all(dir, paths) ==
    IF ~dir.exists
    THEN [exc |-> "FileNotFoundError", experiment |-> Experiment(<<>>, <<>>, <<>>)]
    ELSE [exc |-> "",
          experiment |-> Experiment(
              [i \in 1..Len(dir.config) |-> json_loads(dir.config[i]).val],
              [i \in 1..Len(paths) |-> Item(paths[i], read_feather(dir.metric[paths[i]]))],
              json_loads(gzip_read(dir.info)).val.v)]

\* deserialize(dir_path) when iterdir lists the metric files in the order `paths`
deserialize(dir, paths) ==
    IF ~dir.exists
    THEN [exc |-> "FileNotFoundError", experiment |-> Experiment(<<>>, <<>>, <<>>)]
    ELSE LET configs == [i \in 1..Len(dir.config) |-> json_loads(dir.config[i]).val]
             metrics == [i \in 1..Len(paths) |->
                           Item(paths[i], read_feather(dir.metric[paths[i]]))]
             info == json_loads(gzip_read(dir.info)).val.v IN
         [exc |-> "",
          experiment |-> Experiment(configs,
                                    IF Len(metrics) = 0
                                    THEN <<Item("all", EmptyFrame)>>
                                    ELSE metrics,
                                    info)]

\* DataFrame.equals: the same columns in the same order and the same cells
DataFrame_equals(df, other) == df.columns = other.columns /\ df.rows = other.rows

(***************************************************************************)
(* Metrics (ml_logger.metrics)                                             *)
(***************************************************************************)
RECURSIVE GCD(_, _)
GCD(a, b) == IF b = 0 THEN a ELSE GCD(b, a % b)

Abs(x) == IF x < 0 THEN 0 - x ELSE x

\* a finite float, held exactly as a fraction in lowest terms with a positive
\* denominator; 0.0 is PyFloat(0, 1)
PyFloat(num, den) ==
    LET g == GCD(Abs(num), Abs(den))
        sign == IF den < 0 THEN 0 - 1 ELSE 1 IN
    [k |-> "float", num |-> sign * (num \div g), den |-> sign * (den \div g)]

\* float("inf") and float("-inf")
PyInf(sign) == [k |-> "float", inf |-> sign]

IsInf(x) == x.k = "float" /\ "inf" \in DOMAIN x

IsNumber(x) == x.k = "int" \/ (x.k = "float" /\ ("inf" \in DOMAIN x \/ "num" \in DOMAIN x))

\* the value of a finite number as a fraction
Numerator(x) == IF x.k = "int" THEN x.v ELSE x.num
Denominator(x) == IF x.k = "int" THEN 1 ELSE x.den

\* operator.lt(a, b) on numbers
operator_lt(a, b) ==
    IF IsInf(a) THEN a.inf < 0 /\ ~(IsInf(b) /\ b.inf < 0)
    ELSE IF IsInf(b) THEN b.inf > 0
    ELSE Numerator(a) * Denominator(b) < Numerator(b) * Denominator(a)

\* operator.gt(a, b) on numbers
operator_gt(a, b) == operator_lt(b, a)

\* float + int and float / float on finite numbers
FloatAdd(x, i) == PyFloat(Numerator(x) + i * Denominator(x), Denominator(x))
FloatDiv(x, y) == PyFloat(Numerator(x) * Denominator(y), Denominator(x) * Numerator(y))

\* a metric object; a field its class does not have holds None
Metric(cls, name, val, default_val) ==
    [cls |-> cls, name |-> name, val |-> val, default_val |-> default_val,
     avg |-> PyNone, sum |-> PyNone, count |-> PyNone]

\* AverageMetric.reset
AverageMetric_reset(self) ==
    [self EXCEPT !.val = PyFloat(0, 1), !.avg = PyFloat(0, 1), !.sum = PyFloat(0, 1),
                 !.count = PyFloat(0, 1)]

\* the constructors
CurrentMetric(name) == Metric("CurrentMetric", name, PyInt(0), PyNone)
ConstantMetric(name, val) == Metric("ConstantMetric", name, val, PyNone)
MaxMetric(name) == Metric("MaxMetric", name, PyInf(0 - 1), PyInf(0 - 1))
MinMetric(name) == Metric("MinMetric", name, PyInf(1), PyInf(1))
AverageMetric(name) == AverageMetric_reset(Metric("AverageMetric", name, PyNone, PyNone))
SumMetric(name) == AverageMetric_reset(Metric("SumMetric", name, PyNone, PyNone))

ComparisonClasses == {"MaxMetric", "MinMetric"}
AverageClasses == {"AverageMetric", "SumMetric"}

\* metric.reset()
metric_reset(self) ==
    IF self.cls = "ConstantMetric" THEN self
    ELSE IF self.cls \in ComparisonClasses THEN [self EXCEPT !.val = self.default_val]
    ELSE IF self.cls \in AverageClasses THEN AverageMetric_reset(self)
    ELSE [self EXCEPT !.val = PyInt(0)]

\* the outcome of a call on a metric: the object after it, the exception raised
\* ("" for none), and whether the body of update ran
Updated(self) == [self |-> self, exc |-> "", ran |-> TRUE]
Failed(self, exc, ran) == [self |-> self, exc |-> exc, ran |-> ran]

\* a faulty variant of the comparison that keeps the first value it is given
ComparisonMetric_update_first(self, val) ==
    IF ~IsNumber(val) THEN Failed(self, "TypeError", TRUE)
    ELSE IF self.val = self.default_val THEN Updated([self EXCEPT !.val = val])
    ELSE Updated(self)

\* ComparisonMetric.update(val): the comparison raises on a value that is no number
ComparisonMetric_update(self, val) ==
    IF ~IsNumber(val) THEN Failed(self, "TypeError", TRUE)
    ELSE IF (IF self.cls = "MaxMetric" THEN operator_lt(self.val, val)
             ELSE operator_gt(self.val, val))
    THEN Updated([self EXCEPT !.val = val])
    ELSE Updated(self)

\* a faulty variant of the average that adds val once, whatever n
AverageMetric_update_unweighted(self, val, n) ==
    LET s1 == [self EXCEPT !.val = val, !.sum = FloatAdd(self.sum, val.v),
                           !.count = FloatAdd(self.count, n.v)] IN
    IF Numerator(s1.count) = 0 THEN Failed(s1, "ZeroDivisionError", TRUE)
    ELSE Updated([s1 EXCEPT !.avg = FloatDiv(s1.sum, s1.count)])

\* AverageMetric.update(val, n) for integers: val, sum and count are assigned
\* before the division, which raises when the count has become zero
AverageMetric_update(self, val, n) ==
    LET s1 == [self EXCEPT !.val = val, !.sum = FloatAdd(self.sum, val.v * n.v),
                           !.count = FloatAdd(self.count, n.v)] IN
    IF Numerator(s1.count) = 0 THEN Failed(s1, "ZeroDivisionError", TRUE)
    ELSE Updated([s1 EXCEPT !.avg = FloatDiv(s1.sum, s1.count)])

\* metric.update(*args): a call with the wrong number of arguments raises
\* before the body runs
metric_update(self, args) ==
    IF self.cls = "ConstantMetric"
    THEN IF Len(args) <= 1 THEN Updated(self) ELSE Failed(self, "TypeError", FALSE)
    ELSE IF self.cls \in AverageClasses
    THEN IF Len(args) \notin {1, 2} THEN Failed(self, "TypeError", FALSE)
         ELSE AverageMetric_update(self, args[1], IF Len(args) = 2 THEN args[2] ELSE PyInt(1))
    ELSE IF Len(args) # 1 THEN Failed(self, "TypeError", FALSE)
    ELSE IF self.cls \in ComparisonClasses THEN ComparisonMetric_update(self, args[1])
    ELSE Updated([self EXCEPT !.val = args[1]])

\* metric.get_val()
get_val(self) ==
    IF self.cls = "AverageMetric" THEN self.avg
    ELSE IF self.cls = "SumMetric" THEN self.sum
    ELSE self.val

\* MetricDict(metric_list): the metrics by name, a later one replacing an
\* earlier one of the same name
RECURSIVE MetricDict(_, _, _)
MetricDict(metric_list, i, acc) ==
    IF i > Len(metric_list) THEN acc
    ELSE MetricDict(metric_list, i + 1,
                    SetItem(acc, metric_list[i].name, metric_list[i]))

\* MetricDict.reset
MetricDict_reset(self) == [i \in 1..Len(self) |-> Item(self[i].key, metric_reset(self[i].val))]

\* MetricDict.to_dict
MetricDict_to_dict(self) ==
    [i \in 1..Len(self) |-> Item(self[i].key, get_val(self[i].val))]

\* isinstance(val, (str, float, int)); bool is a subclass of int
IsScalar(val) == val.k \in {"str", "float", "int", "bool"}

\* the loop of MetricDict.update over the items of the dict: the metrics after
\* it, the exception that ended it, and the calls it made, each with the name of
\* the metric, its arguments and whether the body of update ran
RECURSIVE UpdateItems(_, _, _, _)
UpdateItems(self, items, i, calls) ==
    IF i > Len(items) THEN [self |-> self, exc |-> "", calls |-> calls]
    ELSE IF ~Has(self, items[i].key) THEN UpdateItems(self, items, i + 1, calls)
    ELSE LET val == items[i].val
             \* update(val) for a scalar, update(*val) for a tuple or a list;
             \* None cannot be unpacked
             unpacked == IF IsScalar(val) THEN [ok |-> TRUE, args |-> <<val>>]
                         ELSE IF val.k = "list" THEN [ok |-> TRUE, args |-> val.v]
                         ELSE [ok |-> FALSE, args |-> <<>>] IN
         IF ~unpacked.ok THEN [self |-> self, exc |-> "TypeError", calls |-> calls]
         ELSE LET r == metric_update(Get(self, items[i].key), unpacked.args)
                  after == SetItem(self, items[i].key, r.self)
                  made == Append(calls, [name |-> items[i].key, args |-> unpacked.args,
                                         ran |-> r.ran]) IN
              IF r.exc # "" THEN [self |-> after, exc |-> r.exc, calls |-> made]
              ELSE UpdateItems(after, items, i + 1, made)

\* a faulty variant of update that hands a metric the first element of a tuple
\* as its one argument
MetricDict_update_whole(self, metrics_dict) ==
    LET items == IF metrics_dict.k = "MetricDict" THEN MetricDict_to_dict(metrics_dict.v)
                 ELSE metrics_dict.v IN
    UpdateItems(self, [i \in 1..Len(items) |->
                          Item(items[i].key, IF items[i].val.k = "list"
                                             THEN items[i].val.v[1]
                                             ELSE items[i].val)], 1, <<>>)

\* MetricDict.update(metrics_dict): a MetricDict is read through its to_dict
MetricDict_update(self, metrics_dict) ==
    UpdateItems(self, IF metrics_dict.k = "MetricDict"
                      THEN MetricDict_to_dict(metrics_dict.v)
                      ELSE metrics_dict.v, 1, <<>>)

(***************************************************************************)
(* Construction options (logbook.make_config)                              *)
(***************************************************************************)
\* make_config: the backends in the fixed order filesystem, wandb, tensorboard,
\* mlflow, mongo; a backend whose options are None is left out.  logger_dir is
\* None (PyNone) or a directory name; wandb, tensorboard, mlflow and mongo say
\* whether the backend's options were given; the prefix keys are left at None
make_config(id, name, logger_dir, filename, filename_prefix, create_multiple_log_files, wandb, wandb_key_map, tensorboard, tensorboard_key_map, mlflow, mlflow_key_map, mongo) ==
    [id |-> id, name |-> name,
     loggers |->
        (IF logger_dir = PyNone THEN <<>>
         ELSE <<[kind |-> "filesystem", logger_dir |-> logger_dir.v,
                 logger_name |-> name, filename |-> filename,
                 create_multiple_log_files |-> create_multiple_log_files,
                 filename_prefix |-> filename_prefix,
                 logbook_key_map |-> PyNone, logbook_key_prefix |-> PyNone]>>)
        \o (IF wandb
            THEN <<[kind |-> "wandb", logbook_key_map |-> wandb_key_map,
                    logbook_key_prefix |-> PyNone]>>
            ELSE <<>>)
        \o (IF tensorboard
            THEN <<[kind |-> "tensorboard", logbook_key_map |-> tensorboard_key_map,
                    logbook_key_prefix |-> PyNone]>>
            ELSE <<>>)
        \o (IF mlflow
            THEN <<[kind |-> "mlflow", logbook_key_map |-> mlflow_key_map,
                    logbook_key_prefix |-> PyNone]>>
            ELSE <<>>)
        \o (IF mongo
            THEN <<[kind |-> "mongo", logbook_key_map |-> PyNone,
                    logbook_key_prefix |-> PyNone]>>
            ELSE <<>>)]

(***************************************************************************)
(* The inputs the model draws from                                         *)
(***************************************************************************)
MaxWrites == 2

LogDir == "logs"

EpochToStep == PyDict(<<Item("epoch", PyStr("step"))>>)

Reversed(s) == [i \in 1..Len(s) |-> s[Len(s) + 1 - i]]

\* LogBook configs: those make_config builds, and two with the backends listed in
\* another order (LogBook takes the order of config["loggers"] as it finds it)
LogBookConfigs ==
    LET fs_only == make_config("0", "default_logger", PyStr(LogDir), PyNone, "", TRUE,
                               FALSE, PyNone, FALSE, PyNone, FALSE, PyNone, FALSE)
        fs_single == make_config("1", "default_logger", PyStr(LogDir), PyNone, "", FALSE,
                                 FALSE, PyNone, FALSE, PyNone, FALSE, PyNone, FALSE)
        fs_wandb == make_config("0", "default_logger", PyStr(LogDir), PyNone, "", TRUE,
                                TRUE, EpochToStep, FALSE, PyNone, FALSE, PyNone, FALSE)
        all == make_config("1", "default_logger", PyStr(LogDir), PyNone, "", TRUE,
                           TRUE, PyNone, TRUE, PyNone, FALSE, PyNone, TRUE)
        remote == make_config("0", "default_logger", PyNone, PyNone, "", TRUE,
                              TRUE, PyNone, TRUE, PyNone, FALSE, PyNone, FALSE)
        fs_tb_mongo == make_config("0", "default_logger", PyStr(LogDir), PyNone, "", FALSE,
                                   FALSE, PyNone, TRUE, EpochToStep, FALSE, PyNone, TRUE) IN
    {fs_only, fs_single, fs_wandb, all, remote,
     [fs_wandb EXCEPT !.loggers = Reversed(@)],
     [fs_tb_mongo EXCEPT !.loggers = Reversed(@)]}

\* the records the caller holds: two flat ones, and one with a nested mapping
CallerHeap ==
    (1 :> <<Item("loss", PyInt(2)), Item("step", PyInt(1))>>)
    @@ (2 :> <<Item("epoch", PyInt(1)), Item("acc", PyInt(3))>>)
    @@ (3 :> <<Item("name", PyStr("run")), Item("metric_dict", PyRef(4))>>)
    @@ (4 :> <<Item("epoch", PyInt(2))>>)

CallerRecords == {1, 2, 3}

LogTypes == {"config", "metric", "message", "info"}

RemoteKinds == {"wandb", "tensorboard", "mongo"}

\* the remote services that are unreachable during one write: none, or all
Outages == {{}, RemoteKinds}

(***************************************************************************)
(* State                                                                   *)
(***************************************************************************)
VARIABLES
    logbook,    \* the LogBook instance: its id and its backends, in order
    registry,   \* logging's loggers by name: the files of each one's handlers
    files,      \* the file system: path -> the lines of the file
    heap,       \* the dict objects the caller holds
    nwrites,    \* LogBook.write calls so far
    lastWrite,  \* the last LogBook.write call: its arguments and what it did
    written,    \* the records whose line the filesystem backend has emitted
    parsed,     \* the result of the last experiment.Parser.parse
    loglines,   \* a log file some process wrote: its lines, each with what it is
    reader,     \* what log.Parser.parse yielded from that file
    decoding,   \* what each line decoder returned for the last line of that file
    built,      \* the last backend constructed: its options before and after
    books,      \* the LogBook instances of the process, in the order they were made
    appended,   \* the last write by one of them: the instance, the files before and after
    group,      \* the metric records handed to metrics_to_df, in order
    table,      \* the tables metrics_to_df made of them
    store,      \* a directory Experiments are serialized to
    serialized, \* the Experiments serialized to it so far, in order
    loaded,     \* what deserialize returned for it
    tree,       \* a directory tree: path -> directory, or file with its lines
    globbed,    \* what log.Parser.parse yielded for a file pattern
    explored,   \* what experiment.Parser.parse returned for a pattern or directory
    meters,     \* the metric objects a MetricDict wraps, by name
    history,    \* per metric, the update calls since construction or the last reset
    lastUpdate, \* the last call on a metric or on the MetricDict, and how it ended
    sequence,   \* an ExperimentSequence: its Experiments, in order
    derived,    \* what groupby or filter returned for it, and the sequence before
    aggregated  \* what ExperimentSequence.aggregate returned for it

bookVars == <<logbook, registry, files, heap, nwrites, lastWrite, written, parsed>>

lineVars == <<loglines, reader, decoding>>

tableVars == <<group, table>>

storeVars == <<store, serialized, loaded>>

globVars == <<tree, globbed, explored>>

meterVars == <<meters, history, lastUpdate>>

seqVars == <<sequence, aggregated, derived>>

optVars == <<built>>

instVars == <<books, appended>>

vars == <<bookVars, lineVars, tableVars, storeVars, globVars, meterVars, seqVars,
          optVars, instVars>>

NoWrite ==
    [via |-> "", typed |-> FALSE, src |-> 0, before |-> PyNone, log_type |-> "",
     now |-> 0, calls |-> <<>>, effects |-> <<>>, exc |-> "", at |-> 0]

Unparsed ==
    [exc |-> "unparsed", experiment |-> Experiment(<<>>, <<>>, <<>>),
     metric_logs |-> <<>>, from |-> <<>>]

\* no log file has been read
NotRead == [done |-> FALSE, records |-> <<>>]

\* the parts of the state an execution leaves alone stay as they start
BookIdle ==
    /\ logbook = [id |-> "", logger_name |-> "", loggers |-> <<>>]
    /\ registry = <<>>
    /\ files = <<>>
    /\ heap = <<>>
    /\ nwrites = 0
    /\ lastWrite = NoWrite
    /\ written = <<>>
    /\ parsed = Unparsed

\* no backend has been constructed from an options mapping
NotBuilt ==
    [count |-> 0, kind |-> "", given |-> <<>>, config |-> <<>>, exc |-> "",
     key_map |-> PyNone, key_prefix |-> PyNone, kwargs |-> <<>>]

OptionsIdle == built = NotBuilt

\* no LogBook has been made next to another
NotAppended == [by |-> 0, log_type |-> "", before |-> <<>>, after |-> <<>>, exc |-> ""]

BooksIdle == books = <<>> /\ appended = NotAppended

\* no line has been handed to the decoders
NotDecoded ==
    [done |-> FALSE, value |-> "", json |-> PyNone, matched |-> PyNone,
     wrapped |-> PyNone, stream |-> <<>>]

LinesIdle ==
    /\ loglines = <<>>
    /\ reader = NotRead
    /\ decoding = NotDecoded

\* no table has been made
NoTable == [done |-> FALSE, dfs |-> <<>>]

TableIdle ==
    /\ group = <<>>
    /\ table = NoTable

\* a directory that does not exist
NoDir == [exists |-> FALSE, config |-> <<>>, metric |-> <<>>, info |-> <<>>]

\* nothing has been deserialized
NotLoaded == [done |-> FALSE, exc |-> "", experiment |-> Experiment(<<>>, <<>>, <<>>)]

StoreIdle ==
    /\ store = NoDir
    /\ serialized = <<>>
    /\ loaded = NotLoaded

\* no pattern has been read
NotGlobbed == [done |-> FALSE, pattern |-> Pattern(FALSE, <<>>), exc |-> "", records |-> <<>>]

\* no pattern has been parsed into an Experiment
NotExplored ==
    [done |-> FALSE, pattern |-> Pattern(FALSE, <<>>), exc |-> "",
     experiment |-> Experiment(<<>>, <<>>, <<>>), metric_logs |-> <<>>]

GlobIdle ==
    /\ tree = <<>>
    /\ globbed = NotGlobbed
    /\ explored = NotExplored

\* no call has been made on a metric
NoUpdate ==
    [call |-> "", arg |-> PyNone, before |-> <<>>, exc |-> "", calls |-> <<>>, count |-> 0]

MetersIdle ==
    /\ meters = <<>>
    /\ history = <<>>
    /\ lastUpdate = NoUpdate

\* aggregate has not been called
NotAggregated == [done |-> FALSE, exc |-> "", val |-> PyNone]

\* neither groupby nor filter has been called
NotDerived == [call |-> "", fn |-> "", before |-> <<>>, val |-> <<>>]

SeqIdle ==
    /\ sequence = <<>>
    /\ aggregated = NotAggregated
    /\ derived = NotDerived

Init ==
    /\ LinesIdle /\ TableIdle /\ StoreIdle /\ GlobIdle /\ MetersIdle /\ SeqIdle /\ OptionsIdle /\ BooksIdle
    /\ \E config \in LogBookConfigs :
        LET r == logbook_init(config, World(<<>>, <<>>)) IN
        /\ logbook = r.self
        /\ registry = r.world.registry
        /\ files = r.world.files
        /\ heap = CallerHeap
        /\ nwrites = 0
        /\ lastWrite = NoWrite
        /\ written = <<>>
        /\ parsed = Unparsed

\* the clock ticks between two calls of LogBook.write: every call reads a time
\* of its own
Clock == nwrites

\* the value of an argument: of the dict a reference points to, or the value itself
ValueOf(h, log) == IF log.k = "ref" THEN Deref(h, log.v) ELSE log

\* what a call of LogBook.write, made directly or by the wrapper `via`, leaves:
\* `rec` is the value LogBook.write was handed, `src` the address of the caller's
\* record it is (0 for none), `typed` whether the caller named the record type
Called(via, typed, src, rec, log_type, now, r) ==
    /\ heap' = [x \in DOMAIN heap |-> r.h[x]]
    /\ files' = ApplyEffects(files, registry, r.effects, 1)
    /\ lastWrite' = [via |-> via, typed |-> typed, src |-> src, before |-> rec,
                     log_type |-> log_type, now |-> now, calls |-> r.calls,
                     effects |-> r.effects, exc |-> r.exc, at |-> r.at]
    /\ written' = IF \E i \in 1..Len(r.effects) : r.effects[i].call = "info"
                  THEN Append(written, [rec |-> rec, log_type |-> log_type, now |-> now])
                  ELSE written
    /\ nwrites' = nwrites + 1
    /\ UNCHANGED <<logbook, registry, parsed, lineVars, tableVars, storeVars, globVars, meterVars, seqVars,
                   optVars, instVars>>

\* the address of the caller's record an argument is, 0 when it is none
SrcOf(log) == IF log.k = "ref" THEN log.v ELSE 0

\* the caller calls logbook.write(log, log_type) with one of its records or with
\* a value that is no mapping, the clock reading `now`; the writers have
\* finished when the log directory is parsed
Write(log, log_type, now, down) ==
    /\ nwrites < MaxWrites
    /\ parsed = Unparsed
    /\ \E r \in {LogBook_write(logbook, heap, log, log_type, now, down)} :
          Called("write", TRUE, SrcOf(log), ValueOf(heap, log), log_type, now, r)

\* logbook.write_config(config)
WriteConfig(config, now, down) ==
    /\ nwrites < MaxWrites
    /\ parsed = Unparsed
    /\ \E r \in {LogBook_write_config(logbook, heap, config, now, down)} :
          Called("write_config", FALSE, SrcOf(config), ValueOf(heap, config),
                 "config", now, r)

\* logbook.write_metric(metric)
WriteMetric(metric, now, down) ==
    /\ nwrites < MaxWrites
    /\ parsed = Unparsed
    /\ \E r \in {LogBook_write_metric(logbook, heap, metric, now, down)} :
          Called("write_metric", FALSE, SrcOf(metric), ValueOf(heap, metric),
                 "metric", now, r)

\* logbook.write_metadata(metadata)
WriteMetadata(metadata, now, down) ==
    /\ nwrites < MaxWrites
    /\ parsed = Unparsed
    /\ \E r \in {LogBook_write_metadata(logbook, heap, metadata, now, down)} :
          Called("write_metadata", FALSE, SrcOf(metadata), ValueOf(heap, metadata),
                 "metadata", now, r)

\* logbook.write_message(message) when `given` is None, and
\* logbook.write_message(message, log_type=given) otherwise
WriteMessage(message, given, now, down) ==
    /\ nwrites < MaxWrites
    /\ parsed = Unparsed
    /\ \E log_type \in {IF given = PyNone THEN write_message_default_type ELSE given.v} :
       \E r \in {LogBook_write_message(logbook, heap, message, log_type, now, down)} :
          Called("write_message", given # PyNone, 0,
                 PyDict(<<Item("message", message)>>), log_type, now, r)

\* the regular files of a directory
FilesIn(fs, dir) == {p \in DOMAIN fs : p.dir = dir}

\* the orders in which iterdir may list a set of files
Orders(S) ==
    {s \in [1..Cardinality(S) -> S] : \A i, j \in 1..Cardinality(S) : s[i] = s[j] => i = j}

\* experiment.Parser().parse(dir): iterdir lists the files in any order
Parse(dir) ==
    /\ parsed = Unparsed
    /\ \E decoded \in {DecodeFiles(files, FilesIn(files, dir))} :
       \E paths \in Orders(FilesIn(files, dir)) :
          \E r \in {experiment_parse(decoded, paths)} :
          parsed' = [exc |-> r.exc, experiment |-> r.experiment,
                     metric_logs |-> r.metric_logs, from |-> written]
    /\ UNCHANGED <<logbook, registry, files, heap, nwrites, lastWrite, written,
                   lineVars, tableVars, storeVars, globVars, meterVars, seqVars,
                   optVars, instVars>>

Next ==
    \/ \E a \in CallerRecords, log_type \in LogTypes, down \in Outages :
          Write(PyRef(a), log_type, Clock, down)
    \/ Parse(LogDir)

Spec == Init /\ [][Next]_vars

(***************************************************************************)
(* LogBook.write: stamping, the caller's record, the fan-out               *)
(***************************************************************************)
\* the record carries the three reserved keys, the id and the type as given
Stamped(rec, id, log_type) ==
    /\ Has(rec.v, "logbook_id") /\ Get(rec.v, "logbook_id") = PyStr(id)
    /\ Has(rec.v, "logbook_type") /\ Get(rec.v, "logbook_type") = PyStr(log_type)
    /\ Has(rec.v, "logbook_timestamp")

\* C1: in every LogBook.write, the record each backend is handed carries
\* logbook_id equal to the LogBook's id, logbook_type equal to the type of the
\* call, and a logbook_timestamp
C1_EveryBackendHandedStampedRecord ==
    \A i \in 1..Len(lastWrite.calls) :
        Stamped(lastWrite.calls[i].seen, logbook.id, lastWrite.log_type)

\* C2: whatever writes were made, every mapping the caller holds, nested ones
\* included, has the keys and values it had before the first write
C2_CallerRecordUntouched ==
    \A a \in DOMAIN CallerHeap : heap[a] = CallerHeap[a]

\* C2's case: the same record with a nested mapping written twice, the second
\* time to a backend that renames a key inside the nested mapping it is handed
C2_Witness ==
    /\ nwrites = 2
    /\ lastWrite.src = 3
    /\ Len(written) > 0 /\ written[1].rec = Deref(CallerHeap, 3)
    /\ \E i \in 1..Len(lastWrite.effects) :
          /\ lastWrite.effects[i].call = "add_hparams"
          /\ Has(lastWrite.effects[i].extra.v, "step")

\* C3: a write that returns normally has invoked every configured backend
\* exactly once, in the order of configuration, each call having returned
C3_SuccessfulWriteCallsEveryBackendInOrder ==
    (nwrites > 0 /\ lastWrite.exc = "") =>
        /\ Len(lastWrite.calls) = Len(logbook.loggers)
        /\ \A i \in 1..Len(lastWrite.calls) :
              /\ lastWrite.calls[i].idx = i
              /\ lastWrite.calls[i].kind = logbook.loggers[i].kind
              /\ lastWrite.calls[i].returned

\* C3's case: a write over three backends has returned normally
C3_Witness ==
    /\ nwrites > 0
    /\ lastWrite.exc = ""
    /\ Len(logbook.loggers) = 3
    /\ Len(lastWrite.calls) = 3

\* the file lines a write's earlier backends appended are still the last ones
EffectsKept(w) ==
    \A j \in 1..Len(w.effects) :
        w.effects[j].call = "info" =>
            \A p \in Range(registry[w.effects[j].target]) :
                /\ Len(files[p]) > 0
                /\ files[p][Len(files[p])] = w.effects[j].text

\* C4: when the write of backend k fails, the exception reaches the caller of
\* LogBook.write, backends 1..k-1 were each called once and returned and what
\* they wrote stays, and no backend after k is called, nor k a second time
C4_FailureStopsFanOutKeepsEarlierWrites ==
    \A k \in 1..Len(lastWrite.calls) :
        ~lastWrite.calls[k].returned =>
            /\ lastWrite.exc # ""
            /\ lastWrite.at = k
            /\ Len(lastWrite.calls) = k
            /\ \A i \in 1..k : lastWrite.calls[i].idx = i
            /\ \A i \in 1..(k - 1) : lastWrite.calls[i].returned
            /\ \A j \in 1..Len(lastWrite.effects) : lastWrite.effects[j].by < k
            /\ EffectsKept(lastWrite)

\* C4's case: the second of four backends failed after the first wrote its line
C4_Witness ==
    /\ lastWrite.at = 2
    /\ Len(logbook.loggers) = 4
    /\ lastWrite.exc = "ConnectionError"
    /\ \E j \in 1..Len(lastWrite.effects) :
          lastWrite.effects[j].call = "info" /\ lastWrite.effects[j].by = 1

(***************************************************************************)
(* Writing through the filesystem backend, then parsing the log directory  *)
(***************************************************************************)
\* what LogBook.write makes of a caller's record: the record with the three
\* reserved keys set, whatever it held under them
Expected(w) ==
    PyDict(SetItem(SetItem(SetItem(w.rec.v, "logbook_id", PyStr(logbook.id)),
                           "logbook_timestamp", strftime(w.now)),
                   "logbook_type", PyStr(w.log_type)))

\* the written records of one type, in write order, as they are expected back
RECURSIVE ExpectedOfType(_, _, _)
ExpectedOfType(ws, T, i) ==
    IF i > Len(ws) THEN <<>>
    ELSE IF ws[i].log_type = T THEN <<Expected(ws[i])>> \o ExpectedOfType(ws, T, i + 1)
    ELSE ExpectedOfType(ws, T, i + 1)

\* experiment.info[T], empty when the Experiment has no such list
InfoOf(e, T) == IF Has(e.info, T) THEN Get(e.info, T).v ELSE <<>>

\* every record the parse decoded: the configs, the metric records, the info lists
RECURSIVE InfoRecords(_, _)
InfoRecords(info, i) ==
    IF i > Len(info) THEN <<>> ELSE info[i].val.v \o InfoRecords(info, i + 1)

Decoded(p) == p.experiment.configs \o p.metric_logs \o InfoRecords(p.experiment.info, 1)

\* C5: after a parse of the log directory, every record the filesystem backend
\* wrote is decoded as the caller's record plus the three reserved keys, with
\* logbook_type the type it was written under, and nothing else is decoded
C5_DecodedEqualsWrittenPlusStamps ==
    parsed.exc = "" =>
        /\ \A i \in 1..Len(parsed.from) :
              \E j \in 1..Len(Decoded(parsed)) :
                  PyEq(Decoded(parsed)[j], Expected(parsed.from[i]))
        /\ \A j \in 1..Len(Decoded(parsed)) :
              \E i \in 1..Len(parsed.from) :
                  /\ PyEq(Decoded(parsed)[j], Expected(parsed.from[i]))
                  /\ Get(Decoded(parsed)[j].v, "logbook_type")
                        = PyStr(parsed.from[i].log_type)
        /\ Len(Decoded(parsed)) = Len(parsed.from)

\* C5's case: a record with a nested mapping and a record of another type were
\* written to files and parsed back
C5_Witness ==
    /\ parsed.exc = ""
    /\ Len(parsed.from) = 2
    /\ parsed.from[1].rec = Deref(CallerHeap, 3)
    /\ parsed.from[1].log_type = "message"
    /\ parsed.from[2].log_type = "metric"

\* C6 (as stated): configs lists the config records in write order and, for every
\* other type T, info[T] lists the records of type T in write order
C6_InfoListsEveryOtherType ==
    parsed.exc = "" =>
        /\ SeqEq(parsed.experiment.configs, ExpectedOfType(parsed.from, "config", 1))
        /\ \A T \in LogTypes \ {"config"} :
              SeqEq(InfoOf(parsed.experiment, T), ExpectedOfType(parsed.from, T, 1))

\* C6 (amended): configs lists the config records in write order; for every type
\* T other than config and metric, info[T] lists the records of type T in write
\* order; the metric records are collected, in write order, for the metric
\* tables and appear under no key of info
C6_InfoListsEveryTypeButConfigAndMetric ==
    parsed.exc = "" =>
        /\ SeqEq(parsed.experiment.configs, ExpectedOfType(parsed.from, "config", 1))
        /\ \A T \in LogTypes \ {"config", "metric"} :
              SeqEq(InfoOf(parsed.experiment, T), ExpectedOfType(parsed.from, T, 1))
        /\ SeqEq(parsed.metric_logs, ExpectedOfType(parsed.from, "metric", 1))
        /\ \A T \in {"config", "metric"} : ~Has(parsed.experiment.info, T)

\* C6's case: two different records of one type other than config and metric, and
\* a config between files, were written and parsed
C6_Witness ==
    /\ parsed.exc = ""
    /\ Len(parsed.from) = 2
    /\ parsed.from[1].log_type = "info" /\ parsed.from[2].log_type = "info"
    /\ parsed.from[1].rec # parsed.from[2].rec
    /\ Len(InfoOf(parsed.experiment, "info")) = 2

\* C9: the config of a parsed Experiment is the last element of its configs, the
\* config record written last; configs holds every config record in write
\* order; config is None exactly when there are no configs
C9_ConfigIsLastConfig ==
    parsed.exc = "" =>
        LET e == parsed.experiment
            cs == ExpectedOfType(parsed.from, "config", 1) IN
        /\ SeqEq(e.configs, cs)
        /\ (Len(e.configs) = 0) <=> (Experiment_config(e) = PyNone)
        /\ Len(e.configs) > 0 =>
              /\ Experiment_config(e) = e.configs[Len(e.configs)]
              /\ PyEq(Experiment_config(e), cs[Len(cs)])

\* C9's case: two different config records were written, then parsed
C9_Witness ==
    /\ parsed.exc = ""
    /\ Len(parsed.experiment.configs) = 2
    /\ ~PyEq(parsed.experiment.configs[1], parsed.experiment.configs[2])

(***************************************************************************)
(* The backends' options, the wrappers of LogBook.write, and arguments     *)
(* that are no mappings                                                    *)
(***************************************************************************)
FilenamePrefix == "exp_"

Filename == "run.jsonl"

\* the filesystem backend with a prefix, in both modes, with and without an
\* explicit filename; wandb and tensorboard with and without a key map; mlflow
CallConfigs ==
    { make_config("0", "default_logger", PyStr(LogDir), filename, FilenamePrefix, multi,
                  FALSE, PyNone, FALSE, PyNone, FALSE, PyNone, FALSE) :
        filename \in {PyNone, PyStr(Filename)}, multi \in BOOLEAN }
    \cup { make_config("0", "default_logger", PyNone, PyNone, "", TRUE,
                       TRUE, key_map, FALSE, PyNone, FALSE, PyNone, FALSE) :
             key_map \in {PyNone, EpochToStep} }
    \cup { make_config("0", "default_logger", PyNone, PyNone, "", TRUE,
                       FALSE, PyNone, TRUE, EpochToStep, FALSE, PyNone, FALSE),
           make_config("0", "default_logger", PyNone, PyNone, "", TRUE,
                       FALSE, PyNone, FALSE, PyNone, TRUE, PyNone, FALSE) }

\* arguments of write that are no mappings
InvalidLogs == {PyNone, PyList(<<PyInt(1)>>)}

CallArgs == {PyRef(a) : a \in CallerRecords} \cup InvalidLogs

AllLogTypes == LogTypes \cup {"metadata"}

Messages == {PyStr("done")}

\* the log_type argument of write_message: left out, or named
MessageTypes == {PyNone, PyStr("message")}

InitCalls ==
    /\ LinesIdle /\ TableIdle /\ StoreIdle /\ GlobIdle /\ MetersIdle /\ SeqIdle /\ OptionsIdle /\ BooksIdle
    /\ \E config \in CallConfigs :
        LET r == logbook_init(config, World(<<>>, <<>>)) IN
        /\ logbook = r.self
        /\ registry = r.world.registry
        /\ files = r.world.files
        /\ heap = CallerHeap
        /\ nwrites = 0
        /\ lastWrite = NoWrite
        /\ written = <<>>
        /\ parsed = Unparsed

NextCalls ==
    \/ \E log \in CallArgs, log_type \in AllLogTypes : Write(log, log_type, Clock, {})
    \/ \E config \in CallArgs : WriteConfig(config, Clock, {})
    \/ \E metric \in CallArgs : WriteMetric(metric, Clock, {})
    \/ \E metadata \in CallArgs : WriteMetadata(metadata, Clock, {})
    \/ \E message \in Messages, given \in MessageTypes :
          WriteMessage(message, given, Clock, {})

SpecCalls == InitCalls /\ [][NextCalls]_vars

\* a metric log as it is after a backend's key renaming
Renamed(self, items) ==
    IF self.key_map = PyNone THEN [items |-> items, exc |-> ""]
    ELSE ApplyKeyMap(items, self.key_map.v, 1)

MissingStepRaisesInWandb ==
    \A i \in 1..Len(lastWrite.calls) :
        LET self == logbook.loggers[i]
            seen == lastWrite.calls[i].seen IN
        (/\ self.kind = "wandb"
         /\ Stamped(seen, logbook.id, "metric")
         /\ Renamed(self, seen.v).exc = ""
         /\ ~Has(Renamed(self, seen.v).items, "step")) =>
            /\ ~lastWrite.calls[i].returned
            /\ lastWrite.exc = "KeyError"
            /\ \A j \in 1..Len(lastWrite.effects) : lastWrite.effects[j].by # i

\* the options the filesystem backend of the running LogBook was constructed with
FsOptions ==
    { c.loggers[1] :
        c \in { c \in CallConfigs :
                  /\ Len(c.loggers) > 0
                  /\ c.loggers[1].kind = "filesystem"
                  /\ logbook_init(c, World(<<>>, <<>>)).world.registry = registry } }

\* the types that have a file of their own in multi-file mode
TypesWithFile == {"config", "message", "metadata", "metric"}

\* the file a record of type T belongs to under the options o
FileOf(o, T) ==
    Path(o.logger_dir,
         IF o.filename # PyNone THEN o.filename.v
         ELSE IF o.create_multiple_log_files
         THEN o.filename_prefix \o (IF T \in TypesWithFile THEN T ELSE "message")
                                \o "_log.jsonl"
         ELSE o.filename_prefix \o "log.jsonl")

\* the written records that belong to the file p, in write order, as they are
\* expected in it
RECURSIVE ExpectedInFile(_, _, _, _)
ExpectedInFile(o, ws, p, i) ==
    IF i > Len(ws) THEN <<>>
    ELSE IF FileOf(o, ws[i].log_type) = p
    THEN <<Expected(ws[i])>> \o ExpectedInFile(o, ws, p, i + 1)
    ELSE ExpectedInFile(o, ws, p, i + 1)

C13_WitnessFilename ==
    /\ \E o \in FsOptions : o.filename # PyNone /\ o.create_multiple_log_files
    /\ Len(written) = 2
    /\ written[1].log_type # written[2].log_type
    /\ Len(files[Path(LogDir, Filename)]) = 2

\* what logbook.write(log, log_type) does when called in place of the last call:
\* the caller's records are as they were (LogBook.write leaves them alone)
DirectWrite(log_type) ==
    IF lastWrite.via = "write_message"
    THEN LET c == Alloc(heap, lastWrite.before.v) IN
         LogBook_write(logbook, c.h, PyRef(c.a), log_type, lastWrite.now, {})
    ELSE LogBook_write(logbook, heap,
                       IF lastWrite.src # 0 THEN PyRef(lastWrite.src) ELSE lastWrite.before,
                       log_type, lastWrite.now, {})

\* the last call did what the given write does: the same backends were handed the
\* same records, made the same calls, and the call ended the same way
SameOutcome(r) ==
    /\ r.calls = lastWrite.calls
    /\ r.effects = lastWrite.effects
    /\ r.exc = lastWrite.exc

\* the three wrappers that only fix the record type
WrappersFixType ==
    /\ lastWrite.via = "write_config" => SameOutcome(DirectWrite("config"))
    /\ lastWrite.via = "write_metric" => SameOutcome(DirectWrite("metric"))
    /\ lastWrite.via = "write_metadata" => SameOutcome(DirectWrite("metadata"))

\* C14 (as stated): write_config(r) = write(r, "config"), write_metric(r) =
\* write(r, "metric"), write_metadata(r) = write(r, "metadata") and
\* write_message(m) = write({"message": m}, "message"), the record stamped with
\* logbook_type "message"
C14_WrappersFixTypeMessageAsMessage ==
    /\ WrappersFixType
    /\ (lastWrite.via = "write_message" /\ ~lastWrite.typed) =>
          /\ lastWrite.before = PyDict(<<Item("message", PyStr("done"))>>)
          /\ SameOutcome(DirectWrite("message"))
          /\ \A i \in 1..Len(lastWrite.calls) :
                Get(lastWrite.calls[i].seen.v, "logbook_type") = PyStr("message")

\* C14 (amended): the three wrappers fix the type as stated; write_message(m) =
\* write({"message": m}, "info"), the record stamped with logbook_type "info",
\* and write_message(m, log_type=T) = write({"message": m}, T)
C14_WrappersFixTypeMessageAsInfo ==
    /\ WrappersFixType
    /\ lastWrite.via = "write_message" =>
          /\ lastWrite.before = PyDict(<<Item("message", PyStr("done"))>>)
          /\ SameOutcome(DirectWrite(lastWrite.log_type))
          /\ ~lastWrite.typed =>
                /\ lastWrite.log_type = "info"
                /\ \A i \in 1..Len(lastWrite.calls) :
                      Get(lastWrite.calls[i].seen.v, "logbook_type") = PyStr("info")

\* C14's case: write_message(m) without a type wrote its line to the message file
C14_Witness ==
    /\ lastWrite.via = "write_message"
    /\ ~lastWrite.typed
    /\ lastWrite.exc = ""
    /\ \E i \in 1..Len(lastWrite.effects) : lastWrite.effects[i].call = "info"
    /\ \E o \in FsOptions : o.create_multiple_log_files /\ o.filename = PyNone

\* C14's second case: write_metadata wrote a record that holds a nested mapping
C14_WitnessMetadata ==
    /\ lastWrite.via = "write_metadata"
    /\ lastWrite.src = 3
    /\ lastWrite.exc = ""
    /\ \E i \in 1..Len(lastWrite.effects) : lastWrite.effects[i].call = "info"

\* the calls the i-th backend made in the last write
EffectsBy(i) == SelectSeq(lastWrite.effects, LAMBDA e : e.by = i)

C15_WitnessConfig ==
    /\ lastWrite.log_type = "config"
    /\ lastWrite.src = 2
    /\ Len(logbook.loggers) = 1 /\ logbook.loggers[1].key_map = EpochToStep
    /\ Len(lastWrite.effects) = 1
    /\ Has(lastWrite.effects[1].data.v, "epoch")

\* C16: write, write_config, write_metric and write_metadata raise TypeError for
\* an argument that is no mapping, and no backend is invoked for it
C16_NonMappingRaisesBeforeAnyBackend ==
    (/\ lastWrite.via \in {"write", "write_config", "write_metric", "write_metadata"}
     /\ lastWrite.before.k # "dict") =>
        /\ lastWrite.exc = "TypeError"
        /\ lastWrite.calls = <<>>
        /\ lastWrite.effects = <<>>

\* C16's case: write_metric was called with a list, after a record was written
C16_Witness ==
    /\ lastWrite.via = "write_metric"
    /\ lastWrite.before = PyList(<<PyInt(1)>>)
    /\ lastWrite.exc = "TypeError"
    /\ Len(logbook.loggers) = 1
    /\ Len(written) = 1

(***************************************************************************)
(* A log file with foreign lines, read by log.Parser                       *)
(***************************************************************************)
MaxLines == 3

\* a line of the file: its text, and whether the text is a JSON text (RFC 8259)
Line(text, json) == [text |-> text, json |-> json]

\* the lines a log file may hold: records, other JSON values, and text that is
\* not JSON (console output, a line cut short by a crash, a trailing comma, an
\* empty line, the literal NaN)
LinePool ==
    { Line(Encode(PyDict(<<Item("loss", PyInt(2)),
                           Item("logbook_type", PyStr("metric"))>>)), TRUE),
      Line(Encode(PyDict(<<Item("lr", PyDict(<<Item("init", PyNone)>>))>>)), TRUE),
      Line(Encode(PyDict(<<>>)), TRUE),
      Line(Encode(PyInt(1)), TRUE),
      Line(Encode(PyList(<<PyInt(1)>>)), TRUE),
      Line(Encode(PyStr("done")), TRUE),
      Line(Encode(PyNone), TRUE),
      Line(<<TokJunk>>, FALSE),
      Line(<<Tok("{"), TokS("loss"), Tok(":"), TokN(2)>>, FALSE),
      Line(<<Tok("{"), TokS("loss"), Tok(":"), TokN(2), Tok(","), Tok("}")>>, FALSE),
      Line(<<>>, FALSE),
      Line(<<Tok("NaN")>>, FALSE) }

\* some process appends a line to the file
AppendLine(l) ==
    /\ Len(loglines) < MaxLines
    /\ ~reader.done
    /\ loglines' = Append(loglines, l)
    /\ UNCHANGED <<reader, decoding, bookVars, tableVars, storeVars, globVars, meterVars, seqVars,
                   optVars, instVars>>

\* list(log.Parser().parse(path)) for the file
ReadLog ==
    /\ ~reader.done
    /\ reader' = [done |-> TRUE,
                  records |-> log_parse([i \in 1..Len(loglines) |-> loglines[i].text])]
    /\ UNCHANGED <<loglines, decoding, bookVars, tableVars, storeVars, globVars, meterVars,
                   seqVars,
                   optVars, instVars>>

InitLines == BookIdle /\ LinesIdle /\ TableIdle /\ StoreIdle /\ GlobIdle /\ MetersIdle /\ SeqIdle /\ OptionsIdle /\ BooksIdle

NextLines ==
    \/ \E l \in LinePool : AppendLine(l)
    \/ ReadLog

SpecLines == InitLines /\ [][NextLines]_vars

\* the lines of the file that are JSON texts, in file order
JsonLines == SelectSeq(loglines, LAMBDA l : l.json)

\* the lines the JSON decoder takes and gives a value other than None for
DecodedLines ==
    SelectSeq(loglines, LAMBDA l : json_loads(l.text).ok /\ json_loads(l.text).val # PyNone)

\* C7 (as stated): a file of N JSON lines and M lines that are not JSON yields
\* exactly N records
C7_OneRecordPerJsonLine ==
    reader.done => Len(reader.records) = Len(JsonLines)

\* C7 (amended): the file yields one record for every line that the JSON decoder
\* accepts with a value other than null, in the order of those lines, and no
\* other line of the file stops the reading or yields anything; the record is the
\* decoded mapping, or the decoded value wrapped under "data", tagged with the
\* type "log" unless it carries a type
C7_OneRecordPerDecodedNonNullLine ==
    reader.done =>
        /\ Len(reader.records) = Len(DecodedLines)
        /\ \A i \in 1..Len(DecodedLines) :
              LET val == json_loads(DecodedLines[i].text).val
                  rec == reader.records[i] IN
              /\ rec.k = "dict"
              /\ Has(rec.v, log_key)
              /\ IF val.k = "dict"
                 THEN \A key \in Keys(val.v) :
                         Has(rec.v, key) /\ Get(rec.v, key) = Get(val.v, key)
                 ELSE Get(rec.v, "data") = val

\* C7's case: a file whose last line was cut short, with a record before and
\* after a line that is not JSON, has been read
C7_Witness ==
    /\ reader.done
    /\ Len(loglines) = 3
    /\ loglines[1].json /\ ~loglines[2].json /\ ~loglines[3].json
    /\ loglines[3].text = <<Tok("{"), TokS("loss"), Tok(":"), TokN(2)>>
    /\ Len(reader.records) = 1

(***************************************************************************)
(* The line decoders and the classifier wrapper, on the lines of such a    *)
(* file                                                                    *)
(***************************************************************************)
\* the types a matcher is asked for
MatchValues == {"config", "metric"}

\* the last line of the file is handed to parse_json, to
\* parse_json_and_match_value and to the experiment parser's wrapper, and the file
\* is read through that wrapper by _parse_file
DecodeLine(value) ==
    /\ Len(loglines) > 0
    /\ ~decoding.done /\ ~reader.done
    /\ \E line \in {loglines[Len(loglines)].text} :
          decoding' = [done |-> TRUE, value |-> value,
                      json |-> parse_json(line),
                      matched |-> parse_json_and_match_value(line, value),
                      wrapped |-> wrap_parse_line(ExperimentDecoders, line),
                      stream |-> parse_file(ExperimentDecoders,
                                            [i \in 1..Len(loglines) |-> loglines[i].text])]
    /\ UNCHANGED <<loglines, reader, bookVars, tableVars, storeVars, globVars, meterVars,
                   seqVars,
                   optVars, instVars>>

\* a line is appended while no decoder has run
AppendBeforeDecode(l) == ~decoding.done /\ AppendLine(l)

InitDecode == InitLines

NextDecode ==
    \/ \E l \in LinePool : AppendBeforeDecode(l)
    \/ \E value \in MatchValues : DecodeLine(value)

SpecDecode == InitDecode /\ [][NextDecode]_vars

\* C23: whatever the line holds, no decoder and no wrapper raises: each returns a
\* record or None, the wrapper's record being a mapping, and the file is read to
\* its last line
C23_DecodersNeverRaise ==
    decoding.done =>
       /\ ~Raised(decoding.json)
       /\ ~Raised(decoding.matched) /\ decoding.matched.k \in {"dict", "null"}
       /\ ~Raised(decoding.wrapped) /\ decoding.wrapped.k \in {"dict", "null"}
       /\ \A i \in 1..Len(decoding.stream) : ~Raised(decoding.stream[i])

\* parse_json alone never raises on these lines
ParseJsonNeverRaises == decoding.done => ~Raised(decoding.json)

(***************************************************************************)
(* The metric records of one group, made into a table                      *)
(***************************************************************************)
MaxRecords == 3

\* metric records with keys in common, keys of their own, no keys at all, and
\* with a nested mapping as a value
MetricPool ==
    { PyDict(<<Item("a", PyInt(1))>>),
      PyDict(<<Item("b", PyInt(2))>>),
      PyDict(<<Item("a", PyInt(3)), Item("b", PyInt(4))>>),
      PyDict(<<Item("b", PyInt(5)), Item("c", PyNone)>>),
      PyDict(<<>>),
      PyDict(<<Item("loss", PyDict(<<Item("train", PyInt(1)), Item("val", PyInt(2))>>))>>),
      PyDict(<<Item("a", PyInt(1)), Item("loss", PyDict(<<Item("train", PyInt(3))>>))>>) }

\* one more metric record is collected for the group
AddMetric(m) ==
    /\ Len(group) < MaxRecords
    /\ ~table.done
    /\ group' = Append(group, m)
    /\ UNCHANGED <<table, bookVars, lineVars, storeVars, globVars, meterVars, seqVars,
                   optVars, instVars>>

\* metrics_to_df(metric_logs) for the records collected
MetricsToDf ==
    /\ ~table.done
    /\ table' = [done |-> TRUE, dfs |-> metrics_to_df(group)]
    /\ UNCHANGED <<group, bookVars, lineVars, storeVars, globVars, meterVars, seqVars,
                   optVars, instVars>>

InitTable == BookIdle /\ LinesIdle /\ TableIdle /\ StoreIdle /\ GlobIdle /\ MetersIdle /\ SeqIdle /\ OptionsIdle /\ BooksIdle

NextTable ==
    \/ \E m \in MetricPool : AddMetric(m)
    \/ MetricsToDf

SpecTable == InitTable /\ [][NextTable]_vars

\* every key that occurs in a record of the list
UnionOfKeys(records) == UNION {Keys(records[i].v) : i \in 1..Len(records)}

\* the cell of a table in a row and a named column
Cell(df, i, c) == df.rows[i][CHOOSE j \in 1..Len(df.columns) : df.columns[j] = c]

\* C8: the table of a group has one column for every key that occurs in any of
\* the group's records, and one row per record that holds the record's value
\* in the columns of its keys and null in every other column
C8_TableHasUnionOfKeysNullFilled ==
    table.done =>
        \A g \in 1..Len(table.dfs) :
            LET df == table.dfs[g].val IN
            /\ Range(df.columns) = UnionOfKeys(group)
            /\ UnionOfKeys(group) # {} =>
                  /\ Len(df.rows) = Len(group)
                  /\ \A i \in 1..Len(group) : \A c \in UnionOfKeys(group) :
                        Cell(df, i, c) = IF Has(group[i].v, c) THEN Get(group[i].v, c)
                                         ELSE PyNone

(***************************************************************************)
(* Experiments serialized to a directory and read back                     *)
(***************************************************************************)
MaxSerializes == 3

\* Experiments as the parser makes them (the tables made by metrics_to_df) and as
\* a caller may build them; the first four hold no metric record, the last has an
\* empty group next to one with a record
Experiments ==
    LET cfgA == PyDict(<<Item("lr", PyInt(1)), Item("logbook_type", PyStr("config"))>>)
        cfgB == PyDict(<<Item("lr", PyInt(2)), Item("logbook_type", PyStr("config"))>>)
        m1 == PyDict(<<Item("step", PyInt(1)), Item("loss", PyInt(2))>>)
        m2 == PyDict(<<Item("step", PyInt(2)), Item("loss", PyNone)>>)
        note == <<Item("message", PyList(<<PyDict(<<Item("text", PyStr("done"))>>)>>))>> IN
    { Experiment(<<cfgA>>, metrics_to_df(<<>>), <<>>),
      Experiment(<<>>, <<>>, <<>>),
      Experiment(<<cfgA, cfgB>>, <<Item("train", EmptyFrame)>>, note),
      Experiment(<<cfgB>>, <<Item("train", DataFrame(<<"step">>, <<>>))>>, <<>>),
      Experiment(<<cfgA, cfgB>>, metrics_to_df(<<m1, m2>>), note),
      Experiment(<<cfgB>>, <<Item("train", DataFrame_from_dict(
                                   map_list_of_dicts_to_dict_of_lists(<<m1>>))),
                             Item("test", DataFrame_from_dict(
                                   map_list_of_dicts_to_dict_of_lists(<<m2>>)))>>, <<>>),
      Experiment(<<cfgA>>, <<Item("train", DataFrame_from_dict(
                                   map_list_of_dicts_to_dict_of_lists(<<m1>>))),
                             Item("test", EmptyFrame)>>, note) }

\* no group of the Experiment holds a metric record
ZeroMetricRecords(e) == \A g \in 1..Len(e.metrics) : Len(e.metrics[g].val.rows) = 0

\* experiment.serialize(dir) for the one directory
Serialize(e) ==
    /\ Len(serialized) < MaxSerializes
    /\ ~loaded.done
    /\ store' = Experiment_serialize(e, store)
    /\ serialized' = Append(serialized, e)
    /\ UNCHANGED <<loaded, bookVars, lineVars, tableVars, globVars, meterVars, seqVars,
                   optVars, instVars>>

\* deserialize(dir): iterdir lists the metric files in any order
Deserialize ==
    /\ ~loaded.done
    /\ \E paths \in Orders(DOMAIN store.metric) :
          \E r \in {deserialize(store, paths)} :
             loaded' = [done |-> TRUE, exc |-> r.exc, experiment |-> r.experiment]
    /\ UNCHANGED <<store, serialized, bookVars, lineVars, tableVars, globVars, meterVars, seqVars,
                   optVars, instVars>>

InitStore == BookIdle /\ LinesIdle /\ TableIdle /\ StoreIdle /\ GlobIdle /\ MetersIdle /\ SeqIdle /\ OptionsIdle /\ BooksIdle

NextStore ==
    \/ \E e \in Experiments : Serialize(e)
    \/ Deserialize

SpecStore == InitStore /\ [][NextStore]_vars

\* C10: when the Experiment serialized last has zero metric records, the
\* Experiment deserialize returns has exactly one metric group, named "all",
\* that holds an empty table
C10_ZeroMetricsLoadAsOneEmptyGroupAll ==
    (loaded.done /\ Len(serialized) > 0
        /\ ZeroMetricRecords(serialized[Len(serialized)])) =>
        /\ loaded.exc = ""
        /\ Len(loaded.experiment.metrics) = 1
        /\ loaded.experiment.metrics[1].key = "all"
        /\ FrameEmpty(loaded.experiment.metrics[1].val)

(***************************************************************************)
(* Log directories and file patterns that name no file                     *)
(***************************************************************************)
MaxEntries == 3

\* the directories and the files that may come to exist below the working
\* directory: logs/, logs/sub/, logs/a.jsonl, logs/notes.txt, logs/sub/b.jsonl
DirPaths == {<<Name("logs", "")>>, <<Name("logs", ""), Name("sub", "")>>}

FilePaths ==
    {<<Name("logs", ""), Name("a", "jsonl")>>,
     <<Name("logs", ""), Name("notes", "txt")>>,
     <<Name("logs", ""), Name("sub", ""), Name("b", "jsonl")>>}

\* what a file may hold: nothing, a config record, a metric record and a cut line,
\* a message record and an object without a type, the empty object
FileContents ==
    {<<>>,
     <<Encode(PyDict(<<Item("lr", PyInt(1)), Item("logbook_type", PyStr("config"))>>))>>,
     <<Encode(PyDict(<<Item("loss", PyInt(2)), Item("logbook_type", PyStr("metric"))>>)),
       <<Tok("{"), TokS("loss"), Tok(":")>>>>,
     <<Encode(PyDict(<<Item("note", PyInt(3)), Item("logbook_type", PyStr("message"))>>)),
       Encode(PyDict(<<Item("lr", PyInt(1))>>))>>,
     <<Encode(PyDict(<<>>))>>}

\* the arguments of parse: logs, logs/*, logs/*.jsonl, logs/a.jsonl, logs/sub,
\* nosuch, nosuch/*.jsonl as str, and logs, logs/a.jsonl, nosuch as Path
StrPatterns ==
    {Pattern(FALSE, parts) :
        parts \in {<<Name("logs", "")>>,
                   <<Name("logs", ""), Name(Star, Star)>>,
                   <<Name("logs", ""), Name(Star, "jsonl")>>,
                   <<Name("logs", ""), Name("a", "jsonl")>>,
                   <<Name("logs", ""), Name("sub", "")>>,
                   <<Name("nosuch", "")>>,
                   <<Name("nosuch", ""), Name(Star, "jsonl")>>}}

PathPatterns ==
    {Pattern(TRUE, parts) :
        parts \in {<<Name("logs", "")>>,
                   <<Name("logs", ""), Name("a", "jsonl")>>,
                   <<Name("nosuch", "")>>}}

\* a path may be created in the working directory or in an existing directory
MayCreate(p) ==
    /\ ~globbed.done /\ ~explored.done
    /\ Cardinality(DOMAIN tree) < MaxEntries
    /\ p \notin DOMAIN tree
    /\ Len(p) = 1 \/ is_dir(tree, SubSeq(p, 1, Len(p) - 1))

\* os.mkdir(p)
Mkdir(p) ==
    /\ MayCreate(p)
    /\ tree' = tree @@ (p :> Dir)
    /\ UNCHANGED <<globbed, explored, bookVars, lineVars, tableVars, storeVars,
                   meterVars, seqVars,
                   optVars, instVars>>

\* some process writes the file p
WriteFile(p, lines) ==
    /\ MayCreate(p)
    /\ tree' = tree @@ (p :> File(lines))
    /\ UNCHANGED <<globbed, explored, bookVars, lineVars, tableVars, storeVars,
                   meterVars, seqVars,
                   optVars, instVars>>

\* list(log.Parser().parse(pattern)): iglob gives the paths in any order
ParseLogs(pattern) ==
    /\ ~globbed.done
    /\ \E paths \in Orders(glob(tree, pattern.parts)) :
          \E r \in {log_parse_pattern(tree, paths)} :
             globbed' = [done |-> TRUE, pattern |-> pattern, exc |-> r.exc,
                         records |-> r.records]
    /\ UNCHANGED <<tree, explored, bookVars, lineVars, tableVars, storeVars,
                   meterVars, seqVars,
                   optVars, instVars>>

\* experiment.Parser().parse(pattern): glob and iterdir give the paths in any order
ParseExperiment(pattern) ==
    /\ ~explored.done
    /\ \E regular \in {experiment_paths(tree, pattern)} :
       \E paths \in Orders(regular) :
       \E r \in {experiment_parse(DecodeFiles(LinesOf(tree, regular), regular), paths)} :
          explored' = [done |-> TRUE, pattern |-> pattern, exc |-> r.exc,
                       experiment |-> r.experiment, metric_logs |-> r.metric_logs]
    /\ UNCHANGED <<tree, globbed, bookVars, lineVars, tableVars, storeVars,
                   meterVars, seqVars,
                   optVars, instVars>>

InitGlob == BookIdle /\ LinesIdle /\ TableIdle /\ StoreIdle /\ GlobIdle /\ MetersIdle /\ SeqIdle /\ OptionsIdle /\ BooksIdle

NextGlob ==
    \/ \E p \in DirPaths : Mkdir(p)
    \/ \E p \in FilePaths, lines \in FileContents : WriteFile(p, lines)
    \/ \E pattern \in StrPatterns : ParseLogs(pattern)
    \/ \E pattern \in StrPatterns \cup PathPatterns : ParseExperiment(pattern)

SpecGlob == InitGlob /\ [][NextGlob]_vars

\* the regular files a pattern or directory stands for: the files directly in the
\* directory, or the files whose path matches the pattern
ResolvedFiles(pattern) ==
    IF is_dir(tree, pattern.parts)
    THEN {p \in DOMAIN tree : /\ Len(p) = Len(pattern.parts) + 1
                              /\ SubSeq(p, 1, Len(pattern.parts)) = pattern.parts
                              /\ ~tree[p].dir}
    ELSE {p \in DOMAIN tree : /\ Len(p) = Len(pattern.parts)
                              /\ \A i \in 1..Len(p) : fnmatch(p[i], pattern.parts[i])
                              /\ ~tree[p].dir}

\* the existing paths, files or directories, that a pattern matches
MatchedPaths(pattern) ==
    {p \in DOMAIN tree : /\ Len(p) = Len(pattern.parts)
                         /\ \A i \in 1..Len(p) : fnmatch(p[i], pattern.parts[i])}

C12_WitnessDirectory ==
    /\ globbed.done /\ is_dir(tree, globbed.pattern.parts)
    /\ ResolvedFiles(globbed.pattern) = {}
    /\ \E p \in DOMAIN tree : Len(p) = 2 /\ tree[p].dir

(***************************************************************************)
(* Metric objects, updated one by one and through a MetricDict             *)
(***************************************************************************)
MaxCalls == 3

ConstantVal == PyInt(1000)

\* the metrics the MetricDict is made of, as in the tests
MetricList ==
    <<CurrentMetric("cur"), ConstantMetric("const", ConstantVal), MaxMetric("max"),
      MinMetric("min"), AverageMetric("avg"), SumMetric("sum")>>

\* the values and the weights update is called with
Values == {0 - 1, 2}
Weights == {0, 2}

\* the arguments of a direct call of update on a metric of class cls
ArgsOf(cls) ==
    {<<PyInt(val)>> : val \in Values}
    \cup (IF cls \in AverageClasses
          THEN {<<PyInt(val), PyInt(n)>> : val \in Values, n \in Weights}
          ELSE {})

\* the metrics updated directly
Direct == {i \in 1..Len(MetricList) : MetricList[i].cls \in ComparisonClasses \cup AverageClasses}

\* another MetricDict, given to update in place of a dict
OtherMetricDict ==
    [k |-> "MetricDict",
     v |-> MetricDict(<<ConstantMetric("max", PyInt(5)), ConstantMetric("nothing", PyInt(1))>>,
                      1, <<>>)]

\* the arguments of MetricDict.update: every metric with a tuple for one and a
\* key that names none; some metrics; no metric; a weight of zero; a tuple for
\* a metric that takes one value; another MetricDict
MetricDicts ==
    {PyDict(<<Item("cur", PyInt(2)), Item("const", PyInt(5)), Item("max", PyInt(2)),
              Item("min", PyInt(2)), Item("avg", PyInt(2)),
              Item("sum", PyList(<<PyInt(2), PyInt(2)>>)), Item("other", PyInt(9))>>),
     PyDict(<<Item("other", PyInt(9)), Item("max", PyInt(0 - 1)),
              Item("avg", PyList(<<PyInt(0 - 1), PyInt(2)>>))>>),
     PyDict(<<Item("other", PyInt(9))>>),
     PyDict(<<Item("cur", PyStr("a")), Item("avg", PyList(<<PyInt(2), PyInt(0)>>)),
              Item("min", PyInt(2))>>),
     PyDict(<<Item("max", PyInt(2)), Item("cur", PyList(<<PyInt(2), PyInt(2)>>)),
              Item("min", PyInt(0 - 1))>>),
     OtherMetricDict}

\* the calls made so far on the metrics and on the MetricDict
NumCalls == lastUpdate.count

\* the update calls whose body ran on the metric of a name, among those made
RanOn(calls, name) ==
    LET ran == SelectSeq(calls, LAMBDA c : c.name = name /\ c.ran) IN
    [j \in 1..Len(ran) |-> ran[j].args]

\* a call on a metric or on the MetricDict has been made
Recorded(call, arg, exc, made) ==
    lastUpdate' = [call |-> call, arg |-> arg, before |-> meters, exc |-> exc,
                   calls |-> made, count |-> lastUpdate.count + 1]

\* metric.update(*args) on the i-th metric
MetricUpdate(i, args) ==
    /\ NumCalls < MaxCalls
    /\ \E r \in {metric_update(meters[i].val, args)} :
          /\ meters' = [meters EXCEPT ![i].val = r.self]
          /\ history' = [history EXCEPT ![i] = IF r.ran THEN Append(@, args) ELSE @]
          /\ Recorded("update", PyList(args), r.exc,
                      <<[name |-> meters[i].key, args |-> args, ran |-> r.ran]>>)
    /\ UNCHANGED <<bookVars, lineVars, tableVars, storeVars, globVars, seqVars,
                   optVars, instVars>>

\* metric.reset() on the i-th metric
MetricReset(i) ==
    /\ NumCalls < MaxCalls
    /\ meters' = [meters EXCEPT ![i].val = metric_reset(@)]
    /\ history' = [history EXCEPT ![i] = <<>>]
    /\ Recorded("reset", PyNone, "", <<>>)
    /\ UNCHANGED <<bookVars, lineVars, tableVars, storeVars, globVars, seqVars,
                   optVars, instVars>>

\* metric_dict.update(metrics_dict)
DictUpdate(metrics_dict) ==
    /\ NumCalls < MaxCalls
    /\ \E r \in {MetricDict_update(meters, metrics_dict)} :
          /\ meters' = r.self
          /\ history' = [i \in 1..Len(history) |->
                            history[i] \o RanOn(r.calls, meters[i].key)]
          /\ Recorded("dict_update", metrics_dict, r.exc, r.calls)
    /\ UNCHANGED <<bookVars, lineVars, tableVars, storeVars, globVars, seqVars,
                   optVars, instVars>>

\* metric_dict.reset()
DictReset ==
    /\ NumCalls < MaxCalls
    /\ meters' = MetricDict_reset(meters)
    /\ history' = [i \in 1..Len(history) |-> <<>>]
    /\ Recorded("dict_reset", PyNone, "", <<>>)
    /\ UNCHANGED <<bookVars, lineVars, tableVars, storeVars, globVars, seqVars,
                   optVars, instVars>>

InitMetrics ==
    /\ BookIdle /\ LinesIdle /\ TableIdle /\ StoreIdle /\ GlobIdle /\ SeqIdle /\ OptionsIdle /\ BooksIdle
    /\ meters = MetricDict(MetricList, 1, <<>>)
    /\ history = [i \in 1..Len(MetricList) |-> <<>>]
    /\ lastUpdate = NoUpdate

NextMetrics ==
    \/ \E i \in Direct : \E args \in ArgsOf(MetricList[i].cls) : MetricUpdate(i, args)
    \/ \E i \in Direct : MetricReset(i)
    \/ \E metrics_dict \in MetricDicts : DictUpdate(metrics_dict)
    \/ DictReset

SpecMetrics == InitMetrics /\ [][NextMetrics]_vars

\* the metrics of a class, by position in the MetricDict
OfClass(cls) == {i \in 1..Len(meters) : meters[i].val.cls = cls}

\* the values given to the update calls of a history
ValuesOf(h) == {h[j][1].v : j \in 1..Len(h)}

Greatest(S) == CHOOSE x \in S : \A y \in S : y <= x
Least(S) == CHOOSE x \in S : \A y \in S : x <= y

\* C17: after any update calls since construction or the last reset, MaxMetric's
\* get_val is the greatest and MinMetric's the least of the values passed; with no
\* update they are minus infinity and plus infinity
C17_MaxMinOfValuesSinceReset ==
    /\ \A i \in OfClass("MaxMetric") :
          get_val(meters[i].val) = IF history[i] = <<>> THEN PyInf(0 - 1)
                                   ELSE PyInt(Greatest(ValuesOf(history[i])))
    /\ \A i \in OfClass("MinMetric") :
          get_val(meters[i].val) = IF history[i] = <<>> THEN PyInf(1)
                                   ELSE PyInt(Least(ValuesOf(history[i])))

\* a MaxMetric has been given two different values, the greater one first, or a
\* MinMetric the lesser one first
C17_Witness ==
    \/ \E i \in OfClass("MaxMetric") :
          Len(history[i]) >= 2 /\ history[i][1][1].v > history[i][2][1].v
    \/ \E i \in OfClass("MinMetric") :
          Len(history[i]) >= 2 /\ history[i][1][1].v < history[i][2][1].v

\* a reset has put a MaxMetric that had been updated back to minus infinity
C17_WitnessReset ==
    /\ lastUpdate.call \in {"reset", "dict_reset"}
    /\ \E i \in OfClass("MaxMetric") :
          /\ get_val(lastUpdate.before[i].val) # PyInf(0 - 1)
          /\ get_val(meters[i].val) = PyInf(0 - 1)

\* the weight of an update call: n, 1 when it is left out
WeightOf(args) == IF Len(args) = 2 THEN args[2].v ELSE 1

\* the sum of val * n, and the sum of n, over the update calls of a history
RECURSIVE WeightedSum(_, _)
WeightedSum(h, j) ==
    IF j > Len(h) THEN 0 ELSE h[j][1].v * WeightOf(h[j]) + WeightedSum(h, j + 1)

RECURSIVE TotalWeight(_, _)
TotalWeight(h, j) == IF j > Len(h) THEN 0 ELSE WeightOf(h[j]) + TotalWeight(h, j + 1)

\* C18: after any update(val, n) calls since construction or the last reset,
\* SumMetric's get_val is the sum of val * n over the calls, and AverageMetric's
\* get_val is that sum divided by the sum of n, where that is not zero; with no
\* update both are 0
C18_SumAndAverageOfWeightedValues ==
    /\ \A i \in OfClass("SumMetric") :
          LET v == get_val(meters[i].val) IN
          /\ v.k = "float"
          /\ Numerator(v) = WeightedSum(history[i], 1) * Denominator(v)
    /\ \A i \in OfClass("AverageMetric") :
          LET v == get_val(meters[i].val) IN
          /\ v.k = "float"
          /\ history[i] = <<>> => Numerator(v) = 0
          /\ TotalWeight(history[i], 1) # 0 =>
                Numerator(v) * TotalWeight(history[i], 1)
                   = WeightedSum(history[i], 1) * Denominator(v)

\* an AverageMetric and a SumMetric have each been updated with a weight of 2 and
\* with another weight, and the average is no integer
C18_Witness ==
    /\ \E i \in OfClass("AverageMetric") :
          /\ \E j, l \in 1..Len(history[i]) :
                WeightOf(history[i][j]) = 2 /\ WeightOf(history[i][l]) = 1
          /\ Denominator(get_val(meters[i].val)) > 1
    /\ \E i \in OfClass("SumMetric") :
          /\ \E j \in 1..Len(history[i]) : WeightOf(history[i][j]) = 2
          /\ Len(history[i]) >= 2

\* the division by a count of zero: update raised, and the sum was added to
C18_WitnessZeroWeight ==
    /\ lastUpdate.exc = "ZeroDivisionError"
    /\ \E i \in OfClass("AverageMetric") : Len(history[i]) >= 1

\* the arguments the claim gives update for a value of the dict
ArgsFor(val) == IF val.k = "list" THEN val.v ELSE <<val>>

\* C19: MetricDict.update(d), when it returns, has updated exactly the wrapped
\* metrics whose names are keys of d, each with its own value, a tuple unpacked as
\* (val, n); keys naming no metric are ignored and the other metrics keep their
\* state; a ConstantMetric keeps its constructor value under every update and
\* reset; to_dict has one entry per wrapped metric, its get_val
C19_DictUpdatesExactlyNamedMetrics ==
    /\ lastUpdate.call = "dict_update" /\ lastUpdate.exc = "" /\ lastUpdate.arg.k = "dict" =>
          LET d == lastUpdate.arg.v IN
          /\ Len(meters) = Len(lastUpdate.before)
          /\ \A i \in 1..Len(meters) :
                LET name == lastUpdate.before[i].key
                    before == lastUpdate.before[i].val IN
                /\ meters[i].key = name
                /\ ~Has(d, name) => meters[i].val = before
                /\ Has(d, name) =>
                      /\ meters[i].val = metric_update(before, ArgsFor(Get(d, name))).self
                      /\ before.cls = "CurrentMetric" => get_val(meters[i].val) = Get(d, name)
          /\ \A j \in 1..Len(lastUpdate.calls) :
                /\ Has(d, lastUpdate.calls[j].name)
                /\ Has(meters, lastUpdate.calls[j].name)
    /\ \A i \in OfClass("ConstantMetric") : get_val(meters[i].val) = ConstantVal
    /\ LET out == MetricDict_to_dict(meters) IN
       /\ Len(out) = Len(MetricList)
       /\ \A i \in 1..Len(MetricList) :
             /\ out[i].key = MetricList[i].name
             /\ out[i].val = get_val(Get(meters, MetricList[i].name))
             /\ MetricList[i].cls \in {"CurrentMetric", "ConstantMetric"} \cup ComparisonClasses
                   => out[i].val = Get(meters, MetricList[i].name).val

\* update was given a dict with a tuple for an average, a key that names no
\* metric, and no key for some metric that had been updated before; it returned
C19_Witness ==
    /\ lastUpdate.call = "dict_update" /\ lastUpdate.exc = "" /\ lastUpdate.arg.k = "dict"
    /\ \E i \in 1..Len(lastUpdate.arg.v) :
          /\ lastUpdate.arg.v[i].val.k = "list"
          /\ Has(meters, lastUpdate.arg.v[i].key)
          /\ Get(meters, lastUpdate.arg.v[i].key).cls \in AverageClasses
    /\ \E i \in 1..Len(lastUpdate.arg.v) : ~Has(meters, lastUpdate.arg.v[i].key)
    /\ \E i \in 1..Len(meters) :
          /\ ~Has(lastUpdate.arg.v, meters[i].key)
          /\ history[i] # <<>>

(***************************************************************************)
(* A sequence of Experiments, aggregated                                   *)
(***************************************************************************)
MaxExperiments == 3

\* ExperimentSequence.append(e)
AppendExperiment(e) ==
    /\ Len(sequence) < MaxExperiments
    /\ ~aggregated.done /\ derived = NotDerived
    /\ sequence' = Append(sequence, e)
    /\ UNCHANGED <<aggregated, derived, bookVars, lineVars, tableVars, storeVars,
                   globVars, meterVars,
                   optVars, instVars>>

\* sequence.aggregate()
Aggregate ==
    /\ ~aggregated.done
    /\ \E r \in {ExperimentSequence_aggregate(sequence)} :
          aggregated' = [done |-> TRUE, exc |-> r.exc, val |-> r.val]
    /\ UNCHANGED <<sequence, derived, bookVars, lineVars, tableVars, storeVars,
                   globVars, meterVars,
                   optVars, instVars>>

\* the functions given to groupby: the number of configs, the name of the first
\* metric group, and one key for all
GroupFns == {"n_configs", "first_group", "same"}

group_fn(fn, e) ==
    IF fn = "n_configs" THEN ToString(Len(e.configs))
    ELSE IF fn = "first_group" THEN (IF Len(e.metrics) > 0 THEN e.metrics[1].key ELSE "")
    ELSE "same"

\* the functions given to filter: has a config, has info, and one that is never true
FilterFns == {"has_config", "has_info", "never"}

filter_fn(fn, e) ==
    IF fn = "has_config" THEN Len(e.configs) > 0
    ELSE IF fn = "has_info" THEN Len(e.info) > 0
    ELSE FALSE

\* sequence.groupby(group_fn)
Groupby(fn) ==
    /\ derived = NotDerived
    /\ \E r \in {ExperimentSequence_groupby(
                    sequence, [i \in 1..Len(sequence) |-> group_fn(fn, sequence[i])])} :
          /\ sequence' = r.self
          /\ derived' = [call |-> "groupby", fn |-> fn, before |-> sequence, val |-> r.val]
    /\ UNCHANGED <<aggregated, bookVars, lineVars, tableVars, storeVars, globVars, meterVars,
                   optVars, instVars>>

\* sequence.filter(filter_fn)
Filter(fn) ==
    /\ derived = NotDerived
    /\ \E r \in {ExperimentSequence_filter(
                    sequence, [i \in 1..Len(sequence) |-> filter_fn(fn, sequence[i])])} :
          /\ sequence' = r.self
          /\ derived' = [call |-> "filter", fn |-> fn, before |-> sequence, val |-> r.val]
    /\ UNCHANGED <<aggregated, bookVars, lineVars, tableVars, storeVars, globVars, meterVars,
                   optVars, instVars>>

InitSeq == BookIdle /\ LinesIdle /\ TableIdle /\ StoreIdle /\ GlobIdle /\ MetersIdle /\ SeqIdle /\ OptionsIdle /\ BooksIdle

NextSeq ==
    \/ \E e \in Experiments : AppendExperiment(e)
    \/ Aggregate
    \/ \E fn \in GroupFns : Groupby(fn)
    \/ \E fn \in FilterFns : Filter(fn)

SpecSeq == InitSeq /\ [][NextSeq]_vars

\* the configs list of the first Experiment that has a non-empty one
RECURSIVE FirstNonEmptyConfigs(_, _)
FirstNonEmptyConfigs(data, i) ==
    IF i > Len(data) THEN <<>>
    ELSE IF Len(data[i].configs) > 0 THEN data[i].configs
    ELSE FirstNonEmptyConfigs(data, i + 1)

\* the first info mapping that is not empty
RECURSIVE FirstNonEmptyInfo(_, _)
FirstNonEmptyInfo(data, i) ==
    IF i > Len(data) THEN <<>>
    ELSE IF Len(data[i].info) > 0 THEN data[i].info
    ELSE FirstNonEmptyInfo(data, i + 1)

\* C20: for a non-empty sequence, aggregate() with the default strategies returns
\* an Experiment whose configs is the configs list of the first Experiment with a
\* non-empty configs list (the empty list if there is none) and whose info is the
\* first non-empty info mapping
C20_AggregateKeepsFirstConfigsAndInfo ==
    aggregated.done /\ Len(sequence) >= 1 =>
       /\ aggregated.exc = ""
       /\ aggregated.val.configs = FirstNonEmptyConfigs(sequence, 1)
       /\ aggregated.val.info = FirstNonEmptyInfo(sequence, 1)

\* aggregate() raises, whatever the sequence
AggregateAlwaysRaises == aggregated.done => aggregated.exc \in {"TypeError", "KeyError"}

\* the rows of the tables of a group, one Experiment after another, each row as
\* the cells it holds by column
RECURSIVE RowsOfGroup(_, _, _)
RowsOfGroup(data, g, i) ==
    IF i > Len(data) THEN <<>>
    ELSE (IF Has(data[i].metrics, g)
          THEN LET df == Get(data[i].metrics, g) IN
               [r \in 1..Len(df.rows) |->
                   {<<df.columns[c], df.rows[r][c]>> : c \in 1..Len(df.columns)}]
          ELSE <<>>)
         \o RowsOfGroup(data, g, i + 1)

\* C21: for a non-empty sequence, aggregate() with the default metric strategy
\* returns, for every metric group, a table whose rows are the rows of every
\* Experiment's table of that group, in sequence order and in each table's own
\* order, so that the group has as many rows as the Experiments' tables together
C21_AggregateConcatenatesGroupRows ==
    aggregated.done /\ Len(sequence) >= 1 =>
       /\ aggregated.exc = ""
       /\ \A i \in 1..Len(sequence) : \A j \in 1..Len(sequence[i].metrics) :
             LET g == sequence[i].metrics[j].key
                 expected == RowsOfGroup(sequence, g, 1) IN
             /\ Has(aggregated.val.metrics.v, g)
             /\ LET df == Get(aggregated.val.metrics.v, g) IN
                /\ Len(df.rows) = Len(expected)
                /\ \A r \in 1..Len(df.rows) :
                      expected[r] \subseteq
                         {<<df.columns[c], df.rows[r][c]>> : c \in 1..Len(df.columns)}

\* C22: groupby and filter leave the sequence they are called on as it was; filter
\* returns exactly the Experiments that satisfy the predicate, in their order;
\* groupby returns groups that partition the sequence, every Experiment in the
\* group of its key, in their order inside every group
C22_GroupbyAndFilterReturnNewSequences ==
    /\ derived.call # "" => sequence = derived.before
    /\ derived.call = "filter" =>
          derived.val = SelectSeq(derived.before, LAMBDA e : filter_fn(derived.fn, e))
    /\ derived.call = "groupby" =>
          /\ \A g, h \in 1..Len(derived.val) : derived.val[g].key = derived.val[h].key => g = h
          /\ {derived.val[g].key : g \in 1..Len(derived.val)}
                = {group_fn(derived.fn, derived.before[i]) : i \in 1..Len(derived.before)}
          /\ \A g \in 1..Len(derived.val) :
                derived.val[g].val
                   = SelectSeq(derived.before,
                               LAMBDA e : group_fn(derived.fn, e) = derived.val[g].key)

\* groupby has split a sequence of three into two groups, one of them holding two
\* Experiments that are not neighbours in the sequence
C22_Witness ==
    /\ derived.call = "groupby" /\ Len(derived.before) = 3 /\ Len(derived.val) = 2
    /\ group_fn(derived.fn, derived.before[1]) = group_fn(derived.fn, derived.before[3])
    /\ derived.before[1] # derived.before[3]

\* filter has dropped the middle Experiment of three
C22_WitnessFilter ==
    /\ derived.call = "filter" /\ Len(derived.before) = 3
    /\ derived.val = <<derived.before[1], derived.before[3]>>
    /\ derived.before[1] # derived.before[3]


(***************************************************************************)
(* Where the experiment parser files the objects it reads (SpecGlob)       *)
(***************************************************************************)
\* the lines of the files parsed that hold a JSON object: path and line number
ObjectLines ==
    {o \in {<<p, i>> : p \in ResolvedFiles(explored.pattern), i \in 1..MaxEntries} :
        /\ o[2] <= Len(tree[o[1]].lines)
        /\ json_loads(tree[o[1]].lines[o[2]]).ok
        /\ json_loads(tree[o[1]].lines[o[2]]).val.k = "dict"}

ObjectAt(o) == json_loads(tree[o[1]].lines[o[2]]).val.v

\* the type a line's object is to be filed under: its own, or "info" when it has none
FiledType(o) ==
    IF Has(ObjectAt(o), log_key) THEN Str(Get(ObjectAt(o), log_key)) ELSE "info"

\* the record to be filed for the line: the object, with that type when it has none
FiledRecord(o) ==
    IF Has(ObjectAt(o), log_key) THEN PyDict(ObjectAt(o))
    ELSE PyDict(Append(ObjectAt(o), Item(log_key, PyStr("info"))))

Occurrences(seq, x) == Cardinality({j \in 1..Len(seq) : seq[j] = x})

InfoList(info, T) == IF Has(info, T) THEN Get(info, T).v ELSE <<>>

\* every line of S is filed once, in the one place its type names, and nowhere else
FiledOnce(S) ==
    \A o \in S :
        LET x == FiledRecord(o)
            T == FiledType(o)
            n == Cardinality({q \in ObjectLines : FiledRecord(q) = x})
            e == explored.experiment IN
        /\ Occurrences(e.configs, x) = IF T = "config" THEN n ELSE 0
        /\ Occurrences(explored.metric_logs, x) = IF T = "metric" THEN n ELSE 0
        /\ \A K \in {e.info[j].key : j \in 1..Len(e.info)} \cup {T} :
              Occurrences(InfoList(e.info, K), x)
                 = IF T \notin {"config", "metric"} /\ K = T THEN n ELSE 0

NonEmptyObjectsFiledByType ==
    explored.done /\ explored.exc = ""
        => FiledOnce({o \in ObjectLines : Len(ObjectAt(o)) > 0})

\* a parse that read an empty object, a record of every type and an object without
\* a type
NonEmptyObjectsFiledWitness ==
    /\ explored.done /\ explored.exc = ""
    /\ \E o \in ObjectLines : Len(ObjectAt(o)) > 0 /\ ~Has(ObjectAt(o), log_key)
    /\ \E o \in ObjectLines : FiledType(o) = "message"
    /\ \E o \in ObjectLines : FiledType(o) \in {"config", "metric"}


(***************************************************************************)
(* An Experiment serialized into a new directory and read back (SpecStore) *)
(***************************************************************************)
\* the metric groups of an Experiment whose table is not empty
WrittenGroups(e) == {key \in Keys(e.metrics) : ~FrameEmpty(Get(e.metrics, key))}

\* two Experiments are equal: the same configs in order, the same set of metric
\* group names with equal tables, the same info mapping
SameExperiment(e, other) ==
    /\ SeqEq(e.configs, other.configs)
    /\ Keys(e.metrics) = Keys(other.metrics)
    /\ \A key \in Keys(e.metrics) :
          DataFrame_equals(Get(e.metrics, key), Get(other.metrics, key))
    /\ PyEq(PyDict(e.info), PyDict(other.info))

\* the directory was new when the one Experiment was serialized into it
FirstRoundTrip == loaded.done /\ Len(serialized) = 1

\* C25, as stated: the Experiment read back from a new directory equals the one
\* serialized, for every Experiment, empty metric groups included
C25_RoundTripEqualsEveryExperiment ==
    FirstRoundTrip =>
        loaded.exc = "" /\ SameExperiment(loaded.experiment, serialized[1])

\* what the round trip through a new directory does keep: the configs in order,
\* the info mapping, and exactly the metric groups whose table is not empty, with
\* equal tables; when there is no such group, the result has the one group "all"
\* with an empty table. So the two are equal iff every group of the Experiment
\* has a table that is not empty, or its only group is "all" with the empty table
RoundTripKeepsNonEmptyGroups ==
    FirstRoundTrip =>
        LET e == serialized[1]
            back == loaded.experiment IN
        /\ loaded.exc = ""
        /\ SeqEq(back.configs, e.configs)
        /\ PyEq(PyDict(back.info), PyDict(e.info))
        /\ IF WrittenGroups(e) = {}
           THEN back.metrics = <<Item("all", EmptyFrame)>>
           ELSE /\ Keys(back.metrics) = WrittenGroups(e)
                /\ Len(back.metrics) = Cardinality(WrittenGroups(e))
                /\ \A key \in WrittenGroups(e) :
                      DataFrame_equals(Get(back.metrics, key), Get(e.metrics, key))
        /\ SameExperiment(back, e)
              <=> \/ /\ WrittenGroups(e) = Keys(e.metrics)
                     /\ Keys(e.metrics) # {}
                  \/ e.metrics = <<Item("all", EmptyFrame)>>

\* an Experiment with two groups that hold records came back equal
RoundTripEqualWitness ==
    /\ FirstRoundTrip
    /\ Cardinality(WrittenGroups(serialized[1])) = 2
    /\ SameExperiment(loaded.experiment, serialized[1])

\* an Experiment with an empty group next to a group with records came back
\* without the empty group
EmptyGroupLostWitness ==
    /\ FirstRoundTrip
    /\ WrittenGroups(serialized[1]) # {}
    /\ WrittenGroups(serialized[1]) # Keys(serialized[1].metrics)
    /\ Keys(loaded.experiment.metrics) = WrittenGroups(serialized[1])

\* an Experiment without any record came back with the one empty group "all"
NoGroupWrittenWitness ==
    /\ FirstRoundTrip
    /\ WrittenGroups(serialized[1]) = {}
    /\ loaded.experiment.metrics = <<Item("all", EmptyFrame)>>


(***************************************************************************)
(* Backends constructed with and without the two universal options         *)
(***************************************************************************)
MaxBackends == 2

BackendKinds == {"filesystem", "wandb", "tensorboard", "mlflow", "mongo"}

UniversalOptions == {"logbook_key_map", "logbook_key_prefix"}

\* the options of a backend's own that its constructor asks for
NativeOptions(kind) ==
    IF kind = "filesystem"
    THEN <<Item("logger_dir", PyStr(LogDir)), Item("logger_name", PyStr("default_logger")),
           Item("write_to_console", PyBool(FALSE)),
           Item("create_multiple_log_files", PyBool(TRUE)),
           Item("filename_prefix", PyStr("")), Item("filename", PyNone)>>
    ELSE IF kind = "mongo"
    THEN <<Item("host", PyStr("localhost")), Item("port", PyInt(27017)),
           Item("db", PyStr("db")), Item("collection", PyStr("runs"))>>
    ELSE IF kind = "tensorboard" THEN <<Item("logdir", PyStr(LogDir))>>
    ELSE IF kind = "wandb" THEN <<Item("project", PyStr("p"))>>
    ELSE <<Item("name", PyStr("e"))>>

\* each universal option is absent, None or set
KeyMapOptions ==
    {<<>>, <<Item("logbook_key_map", PyNone)>>, <<Item("logbook_key_map", EpochToStep)>>}

KeyPrefixOptions ==
    {<<>>, <<Item("logbook_key_prefix", PyNone)>>,
     <<Item("logbook_key_prefix", PyStr("train"))>>}

\* the mappings a caller may hand to a constructor: the backend's own options,
\* all of them or all but the first, with or without each universal option
OptionMappings(kind) ==
    {native \o key_map \o key_prefix :
        native \in {NativeOptions(kind), Tail(NativeOptions(kind))},
        key_map \in KeyMapOptions, key_prefix \in KeyPrefixOptions}

\* the caller constructs a backend from a mapping it holds
ConstructBackend(kind, config) ==
    /\ built.count < MaxBackends
    /\ \E r \in {Logger_init(kind, config, World(registry, files))} :
          /\ built' = [count |-> built.count + 1, kind |-> kind, given |-> config,
                       config |-> r.config, exc |-> r.exc, key_map |-> r.key_map,
                       key_prefix |-> r.key_prefix, kwargs |-> r.kwargs]
          /\ registry' = r.world.registry
          /\ files' = r.world.files
    /\ UNCHANGED <<logbook, heap, nwrites, lastWrite, written, parsed, lineVars,
                   tableVars, storeVars, globVars, meterVars, seqVars, instVars>>

InitOptions ==
    /\ BookIdle /\ LinesIdle /\ TableIdle /\ StoreIdle /\ GlobIdle /\ MetersIdle
    /\ SeqIdle /\ OptionsIdle /\ BooksIdle

NextOptions ==
    \E kind \in BackendKinds : \E config \in OptionMappings(kind) :
        ConstructBackend(kind, config)

SpecOptions == InitOptions /\ [][NextOptions]_vars

\* the mapping holds every option of the backend's own
NativeComplete(kind, config) ==
    \A i \in 1..Len(NativeOptions(kind)) : Has(config, NativeOptions(kind)[i].key)

\* C26: constructing a backend removes the two universal options from its options
\* when they are present, and construction does not fail because either of them
\* is absent: with the backend's own options complete, it succeeds
C26_UniversalOptionsConsumedAndOptional ==
    built.count > 0 =>
        /\ \A key \in UniversalOptions : ~Has(built.config, key)
        /\ NativeComplete(built.kind, built.given) => built.exc = ""

\* when both universal options are present, the constructor takes their values,
\* removes both from the mapping and leaves the other options, and the remote
\* library is handed none of the two
BothPresentAreConsumed ==
    (/\ built.count > 0
     /\ \A key \in UniversalOptions : Has(built.given, key)) =>
        /\ \A key \in UniversalOptions : ~Has(built.config, key)
        /\ built.key_map = Get(built.given, "logbook_key_map")
        /\ built.key_prefix = Get(built.given, "logbook_key_prefix")
        /\ built.config = SelectSeq(built.given, LAMBDA it : it.key \notin UniversalOptions)
        /\ \A key \in UniversalOptions : ~Has(built.kwargs, key)
        /\ NativeComplete(built.kind, built.given) => built.exc = ""

\* a remote backend was constructed from a mapping with both universal options
BothPresentWitness ==
    /\ built.count > 0 /\ built.kind = "wandb" /\ built.exc = ""
    /\ Get(built.given, "logbook_key_map") = EpochToStep
    /\ Len(built.kwargs) = 1

\* an absent universal option ends the construction with KeyError
AbsentOptionRaisesKeyError ==
    (/\ built.count > 0
     /\ \E key \in UniversalOptions : ~Has(built.given, key)) =>
        built.exc = IF ~Has(built.given, "logbook_key_map")
                    THEN "KeyError: 'logbook_key_map'"
                    ELSE "KeyError: 'logbook_key_prefix'"


(***************************************************************************)
(* Nested mappings in the metric records of a table (SpecTable)            *)
(***************************************************************************)
\* the records of the group, each flattened with the default separator
FlattenedGroup == [i \in 1..Len(group) |-> PyDict(flatten_log(group[i].v, "", "#"))]

\* the cells of a table
Cells(df) == {df.rows[i][j] : i \in 1..Len(df.rows), j \in 1..Len(df.columns)}

C28_BackendsSeeSameStampedRecord ==
    \A i \in 1..Len(lastWrite.calls) :
        /\ lastWrite.calls[i].seen = lastWrite.calls[1].seen
        /\ Stamped(lastWrite.calls[i].seen, logbook.id, lastWrite.log_type)

\* the filesystem backend leaves the record as it was for the backends after it
LaterBackendsSeeSameAfterFilesystem ==
    \A i \in 1..Len(lastWrite.calls) :
        (\A j \in 1..(i - 1) : logbook.loggers[j].kind = "filesystem")
            => lastWrite.calls[i].seen = lastWrite.calls[1].seen


(***************************************************************************)
(* Several LogBook instances in one process                                *)
(***************************************************************************)
MaxBooks == 2

MaxBookWrites == 2

\* LogBooks with a filesystem backend only: the default logger name and directory,
\* one file per type or a single file, another directory, another logger name
BookConfigs ==
    {make_config("0", "default_logger", PyStr(LogDir), PyNone, "", TRUE,
                 FALSE, PyNone, FALSE, PyNone, FALSE, PyNone, FALSE),
     make_config("1", "default_logger", PyStr(LogDir), PyNone, "", FALSE,
                 FALSE, PyNone, FALSE, PyNone, FALSE, PyNone, FALSE),
     make_config("2", "default_logger", PyStr("runs"), PyNone, "", TRUE,
                 FALSE, PyNone, FALSE, PyNone, FALSE, PyNone, FALSE),
     make_config("3", "other_logger", PyStr(LogDir), PyNone, "", TRUE,
                 FALSE, PyNone, FALSE, PyNone, FALSE, PyNone, FALSE)}

BookLogTypes == {"config", "metric", "info"}

\* LogBook(config) in a process that may hold other LogBooks already
NewLogBook(config) ==
    /\ Len(books) < MaxBooks
    /\ \E r \in {logbook_init(config, World(registry, files))} :
          /\ books' = Append(books, [self |-> r.self, config |-> config.loggers[1]])
          /\ registry' = r.world.registry
          /\ files' = r.world.files
    /\ UNCHANGED <<logbook, heap, nwrites, lastWrite, written, parsed, appended,
                   lineVars, tableVars, storeVars, globVars, meterVars, seqVars,
                   optVars>>

\* books[i].write(log, log_type) with the caller's first record
WriteBy(i, log_type) ==
    /\ nwrites < MaxBookWrites
    /\ \E r \in {LogBook_write(books[i].self, heap, PyRef(1), log_type, Clock, {})} :
          /\ heap' = [x \in DOMAIN heap |-> r.h[x]]
          /\ files' = ApplyEffects(files, registry, r.effects, 1)
          /\ appended' = [by |-> i, log_type |-> log_type, before |-> files,
                          after |-> files', exc |-> r.exc]
    /\ nwrites' = nwrites + 1
    /\ UNCHANGED <<logbook, registry, lastWrite, written, parsed, books,
                   lineVars, tableVars, storeVars, globVars, meterVars, seqVars,
                   optVars>>

InitBooks ==
    /\ logbook = [id |-> "", logger_name |-> "", loggers |-> <<>>]
    /\ registry = <<>> /\ files = <<>> /\ heap = CallerHeap /\ nwrites = 0
    /\ lastWrite = NoWrite /\ written = <<>> /\ parsed = Unparsed
    /\ LinesIdle /\ TableIdle /\ StoreIdle /\ GlobIdle /\ MetersIdle /\ SeqIdle
    /\ OptionsIdle /\ BooksIdle

NextBooks ==
    \/ \E config \in BookConfigs : NewLogBook(config)
    \/ \E i \in 1..Len(books) : \E log_type \in BookLogTypes : WriteBy(i, log_type)

SpecBooks == InitBooks /\ [][NextBooks]_vars

\* the file of an instance's own filesystem backend for a record type
OwnFile(book, log_type) ==
    get_logger_file_path(
        book.config.logger_dir, book.config.filename, book.config.filename_prefix,
        IF ~book.config.create_multiple_log_files THEN "log"
        ELSE IF log_type \in Range(logger_types) THEN log_type \o "_log"
        ELSE "message_log")

\* the lines a file has gained by the last write
Gained(p) == Len(appended.after[p]) - Len(appended.before[p])

\* the last write appended one line to the writer's own file for the type and
\* nothing to any other file
OneLineToOwnFile ==
    /\ appended.exc = ""
    /\ \A p \in DOMAIN appended.after :
          /\ SubSeq(appended.after[p], 1, Len(appended.before[p])) = appended.before[p]
          /\ Gained(p) = IF p = OwnFile(books[appended.by], appended.log_type)
                         THEN 1 ELSE 0

\* C29: after any sequence of LogBook constructions and writes in one process,
\* instances that share a logger name or a log directory included, each write
\* appends exactly one line to exactly one file, the file of the writing
\* instance's own filesystem backend selected by the record's type, and nothing
\* to any other instance's files
C29_WriteAppendsOneLineToOwnFile == appended.by > 0 => OneLineToOwnFile

\* the same for a write made while no two instances have the same logger name
OneLineWhenNamesDiffer ==
    (/\ appended.by > 0
     /\ \A i, j \in 1..Len(books) :
           i # j => books[i].self.logger_name # books[j].self.logger_name)
        => OneLineToOwnFile

\* an instance wrote while another one with another logger name had the same
\* directory
NamesDifferWitness ==
    /\ appended.by > 0 /\ Len(books) = 2
    /\ books[1].self.logger_name # books[2].self.logger_name
    /\ books[1].config.logger_dir = books[2].config.logger_dir


(***************************************************************************)
(* Experiments serialized one after another into one directory (SpecStore) *)
(***************************************************************************)
\* C30: after any sequence of serialize calls of Experiments into the same
\* directory, deserialize of the directory returns an Experiment equal to the one
\* serialized last: no config, metric group or info of an earlier one is in it
\* (the groups of the last one whose table is empty, which serialize does not
\* write even into a new directory, are not asked for here)
C30_DeserializeReturnsLastSerialized ==
    (loaded.done /\ Len(serialized) > 0 /\ loaded.exc = "") =>
        LET last == serialized[Len(serialized)]
            back == loaded.experiment IN
        /\ SeqEq(back.configs, last.configs)
        /\ PyEq(PyDict(back.info), PyDict(last.info))
        /\ IF WrittenGroups(last) = {}
           THEN back.metrics = <<Item("all", EmptyFrame)>>
           ELSE /\ Keys(back.metrics) = WrittenGroups(last)
                /\ \A key \in WrittenGroups(last) :
                      DataFrame_equals(Get(back.metrics, key), Get(last.metrics, key))

\* the configs and the info read back are those of the Experiment serialized
\* last, and so is every metric group that it wrote
LastConfigsInfoAndWrittenGroupsKept ==
    (loaded.done /\ Len(serialized) > 0) =>
        LET last == serialized[Len(serialized)]
            back == loaded.experiment IN
        /\ loaded.exc = ""
        /\ SeqEq(back.configs, last.configs)
        /\ PyEq(PyDict(back.info), PyDict(last.info))
        /\ \A key \in WrittenGroups(last) :
              /\ key \in Keys(back.metrics)
              /\ DataFrame_equals(Get(back.metrics, key), Get(last.metrics, key))

\* a directory serialized into twice was read back
SerializedTwiceWitness ==
    /\ loaded.done /\ Len(serialized) = 2
    /\ serialized[1] # serialized[2]
    /\ WrittenGroups(serialized[2]) # {}

====
